---- MODULE Spec2Model ----
(***************************************************************************)
(* A model of renpak: the RPA-3.0 container codec (python/renpak/rpa.py),  *)
(* the image classifier and sequence grouper (python/renpak/encode.py) and *)
(* the build scheduler (python/renpak/build.py).                           *)
(*                                                                         *)
(* Strings are sequences of one-character strings, so that the regular     *)
(* expression, the suffix replacement and the case folding are computed.   *)
(* File contents are sequences of integers (bytes; the obfuscated offset   *)
(* and length fields of the serialized index are one cell each).           *)
(* TLC's integers are 32-bit signed: keys are drawn below 2^31 and the     *)
(* memory budget is counted in units of 512 bytes (every quantity of the   *)
(* budget arithmetic is a multiple of 512).                                *)
(***************************************************************************)
EXTENDS Integers, Sequences, FiniteSets, TLC

VARIABLES
    w,        \* the RpaWriter: file, position, entries, finished, closed, key
              \* (and, in the container specification, calls: how many
              \* finish() and close() calls were made, counted up to MaxCalls)
    wlog,     \* the add_file calls made on w, in order: <<name, data>>
    rd,       \* the RpaReader opened on w's file: state, index_offset, key, index
    gin,      \* group_by_prefix: the input list of names
    gout,     \* group_by_prefix: the result, or the state before the call
    env,      \* the build's inputs: archive, limit, capability, memory, faults
    bld       \* _build_rpa: the scheduler's position and its local variables

rpaVars == <<w, wlog, rd>>
grpVars == <<gin, gout>>
bldVars == <<env, bld>>
vars == <<w, wlog, rd, gin, gout, env, bld>>

-----------------------------------------------------------------------------
(* Characters and strings *)

Ascii ==
    <<" ", "!", "<dquote>", "#", "$", "%", "&", "'", "(", ")", "*", "+", ",", "-", ".", "/",
      "0", "1", "2", "3", "4", "5", "6", "7", "8", "9", ":", ";", "<", "=", ">", "?",
      "@", "A", "B", "C", "D", "E", "F", "G", "H", "I", "J", "K", "L", "M", "N", "O",
      "P", "Q", "R", "S", "T", "U", "V", "W", "X", "Y", "Z", "[", "<bslash>", "]", "^", "_",
      "<btick>", "a", "b", "c", "d", "e", "f", "g", "h", "i", "j", "k", "l", "m", "n", "o",
      "p", "q", "r", "s", "t", "u", "v", "w", "x", "y", "z", "{", "|", "}", "~">>

OrdTable ==
    [c \in {Ascii[i] : i \in 1..Len(Ascii)} |->
        31 + (CHOOSE i \in 1..Len(Ascii) : Ascii[i] = c)]
Ord(c) == OrdTable[c]
Chr(n) == Ascii[n - 31]
\* (the double quote, the backslash and the backtick hold their places in Ascii
\* under stand-in names: no name of the model uses them)

Encode(s) == [i \in 1..Len(s) |-> Ord(s[i])]
Decode(b) == [i \in 1..Len(b) |-> Chr(b[i])]

Min(a, b) == IF a < b THEN a ELSE b
Max(a, b) == IF a > b THEN a ELSE b

StartsWith(s, p) == Len(s) >= Len(p) /\ SubSeq(s, 1, Len(p)) = p

\* The Python slice s[a:b] for 0 <= a.
Slice(s, a, b) == SubSeq(s, a + 1, Min(b, Len(s)))

\* b"".join(ss): the sequences of ss, concatenated in order (by halves).
RECURSIVE FlattenSeqs(_)
FlattenSeqs(ss) ==
    IF Len(ss) = 0 THEN <<>>
    ELSE IF Len(ss) = 1 THEN ss[1]
    ELSE LET h == Len(ss) \div 2
         IN  FlattenSeqs(SubSeq(ss, 1, h)) \o FlattenSeqs(SubSeq(ss, h + 1, Len(ss)))

Indices(s) == [i \in 1..Len(s) |-> i]

RECURSIVE Xor(_, _)
Xor(a, b) ==
    IF a = 0 THEN b
    ELSE IF b = 0 THEN a
    ELSE (((a % 2) + (b % 2)) % 2) + 2 * Xor(a \div 2, b \div 2)

HexChars == <<"0", "1", "2", "3", "4", "5", "6", "7", "8", "9", "a", "b", "c", "d", "e", "f">>

RECURSIVE HexDigits(_)
HexDigits(n) ==
    IF n < 16 THEN <<Ord(HexChars[n + 1])>>
    ELSE Append(HexDigits(n \div 16), Ord(HexChars[(n % 16) + 1]))

\* format(n, "0<width>x"): at least width digits, zero-padded on the left.
FormatHexNoPad(n, width) == HexDigits(n)
FormatHex(n, width) ==
    LET d == HexDigits(n)
    IN  [i \in 1..(Max(width, Len(d)) - Len(d)) |-> Ord("0")] \o d

HexVal(b) ==
    IF b >= 48 /\ b <= 57 THEN b - 48
    ELSE IF b >= 97 /\ b <= 102 THEN b - 87
    ELSE IF b >= 65 /\ b <= 70 THEN b - 55
    ELSE -1

RECURSIVE HexFold(_, _)
HexFold(b, acc) ==
    IF b = <<>> THEN acc ELSE HexFold(Tail(b), 16 * acc + HexVal(Head(b)))

IsSpace(b) == b \in {9, 10, 11, 12, 13, 32}

\* b.strip()
Strip(b) ==
    LET keep == {i \in 1..Len(b) : ~IsSpace(b[i])}
    IN  IF keep = {} THEN <<>>
        ELSE SubSeq(b, CHOOSE i \in keep : \A j \in keep : i <= j,
                       CHOOSE i \in keep : \A j \in keep : i >= j)

\* The digits of a literal: hex digits with single underscores between them.
ParseDigits(d) ==
    IF /\ d # <<>>
       /\ \A i \in 1..Len(d) : HexVal(d[i]) >= 0 \/ d[i] = 95
       /\ d[1] # 95
       /\ d[Len(d)] # 95
       /\ \A i \in 1..(Len(d) - 1) : ~(d[i] = 95 /\ d[i + 1] = 95)
    THEN [ok |-> TRUE, val |-> HexFold(SelectSeq(d, LAMBDA x : x # 95), 0)]
    ELSE [ok |-> FALSE, val |-> 0]

\* A literal without its sign: a 0x prefix (and one underscore after it) may
\* lead the digits.
ParsePrefixed(u) ==
    IF Len(u) >= 2 /\ u[1] = 48 /\ u[2] \in {88, 120}
    THEN IF Len(u) >= 3 /\ u[3] = 95
         THEN ParseDigits(SubSeq(u, 4, Len(u)))
         ELSE ParseDigits(SubSeq(u, 3, Len(u)))
    ELSE ParseDigits(u)

Negated(r) == [r EXCEPT !.val = 0 - r.val]

\* A literal without the white space around it: a sign may lead.
ParseSigned(s) ==
    IF s # <<>> /\ s[1] = 45 THEN Negated(ParsePrefixed(Tail(s)))
    ELSE IF s # <<>> /\ s[1] = 43 THEN ParsePrefixed(Tail(s))
    ELSE ParsePrefixed(s)

\* int(b, 16): white space around the literal is dropped, a sign and a 0x
\* prefix may lead, single underscores may stand between digits (and after the
\* prefix); ok is FALSE for the ValueError of any other field. (A field of hex
\* digits only is its own literal.)
ParseHex(b) ==
    IF b # <<>> /\ \A i \in 1..Len(b) : HexVal(b[i]) >= 0
    THEN [ok |-> TRUE, val |-> HexFold(b, 0)]
    ELSE ParseSigned(Strip(b))

-----------------------------------------------------------------------------
(* The ordered dictionary of Python: a sequence of [k, v] in insertion order *)

DictHas(d, k) == \E i \in 1..Len(d) : d[i].k = k
DictGet(d, k) == d[CHOOSE i \in 1..Len(d) : d[i].k = k].v
DictKeys(d) == {d[i].k : i \in 1..Len(d)}
DictSet(d, k, v) ==
    IF DictHas(d, k)
    THEN [i \in 1..Len(d) |-> IF d[i].k = k THEN [k |-> k, v |-> v] ELSE d[i]]
    ELSE Append(d, [k |-> k, v |-> v])
DictKeyList(d) == [i \in 1..Len(d) |-> d[i].k]

\* The values of a dictionary of lists, concatenated in the dictionary's order.
DictValuesFlat(d) == FlattenSeqs([i \in 1..Len(d) |-> d[i].v])

\* The positions of kvs that hold the first occurrence of their key.
FirstOccurrences(kvs) ==
    SelectSeq(Indices(kvs), LAMBDA i : \A j \in 1..(i - 1) : kvs[j].k # kvs[i].k)

\* The dictionary after d[k] = v for each [k, v] of kvs in order, from empty:
\* a key keeps the place of its first assignment and the value of its last.
DictFromItems(kvs) ==
    LET firsts == FirstOccurrences(kvs)
        last(k) == CHOOSE j \in 1..Len(kvs) :
                        kvs[j].k = k /\ \A l \in (j + 1)..Len(kvs) : kvs[l].k # k
    IN  [g \in 1..Len(firsts) |->
            [k |-> kvs[firsts[g]].k, v |-> kvs[last(kvs[firsts[g]].k)].v]]

\* d.update(kvs)
DictUpdate(d, kvs) == DictFromItems(d \o kvs)

\* The dictionary after d.setdefault(k, []).append(v) for each [k, v] of kvs.
DictOfLists(kvs) ==
    LET firsts == FirstOccurrences(kvs)
    IN  [g \in 1..Len(firsts) |->
            LET members == SelectSeq(kvs, LAMBDA e : e.k = kvs[firsts[g]].k)
            IN  [k |-> kvs[firsts[g]].k,
                 v |-> [t \in 1..Len(members) |-> members[t].v]]]

-----------------------------------------------------------------------------
(* The serialized index: pickle.dumps / zlib.compress and their inverses *)

ZlibMagic == 120

\* One item of the mapping: the name, the tuple's arity, the two obfuscated
\* fields and, in a 3-tuple, the prefix.
PickleItem(name, t) ==
    <<Len(name)>> \o Encode(name) \o <<Len(t), t[1], t[2]>>
    \o (IF Len(t) = 3 THEN <<Len(t[3])>> \o t[3] ELSE <<>>)

PickleDumps(index) ==
    FlattenSeqs([i \in 1..Len(index) |-> PickleItem(index[i].k, index[i].v[1])])

\* The last position of the item that starts at position p of b.
ItemEnd(b, p) ==
    LET n == b[p]
        arity == b[p + n + 1]
    IN  IF arity = 3 THEN p + n + 4 + b[p + n + 4] ELSE p + n + 3

\* The item that starts at position p of b.
ItemAt(b, p) ==
    LET n == b[p]
        arity == b[p + n + 1]
        off == b[p + n + 2]
        len == b[p + n + 3]
        t == IF arity = 3
             THEN <<off, len, SubSeq(b, p + n + 5, ItemEnd(b, p))>>
             ELSE <<off, len>>
    IN  [k |-> Decode(SubSeq(b, p + 1, p + n)), v |-> <<t>>]

\* The positions where the items of b start, from position p on.
RECURSIVE ItemStarts(_, _)
ItemStarts(b, p) ==
    IF p > Len(b) THEN <<>> ELSE <<p>> \o ItemStarts(b, ItemEnd(b, p) + 1)

PickleLoads(b) ==
    LET starts == ItemStarts(b, 1)
    IN  DictFromItems([i \in 1..Len(starts) |-> ItemAt(b, starts[i])])

ZlibCompress(b) == <<ZlibMagic>> \o b
ZlibDecompress(b) == Tail(b)

-----------------------------------------------------------------------------
(* RpaWriter *)

HeaderLen == 40
Magic == <<"R", "P", "A", "-", "3", ".", "0", " ">>

\* file.write(data) at position pos of a file opened 'wb'.
FileWrite(file, pos, data) ==
    LET padded == file \o [i \in 1..(pos - Len(file)) |-> 0]
    IN  SubSeq(padded, 1, pos) \o data
        \o SubSeq(padded, pos + Len(data) + 1, Len(padded))

NoWriter ==
    [file |-> <<>>, pos |-> 0, entries |-> <<>>, finished |-> FALSE,
     closed |-> TRUE, key |-> 0]

WriterInitNoHeader(key) ==
    [file |-> <<>>, pos |-> 0, entries |-> <<>>,
     finished |-> FALSE, closed |-> FALSE, key |-> key]
WriterInit(key) ==
    [file |-> [i \in 1..HeaderLen |-> 0], pos |-> HeaderLen, entries |-> <<>>,
     finished |-> FALSE, closed |-> FALSE, key |-> key]

EntryRecordMutLen(offset, data) == <<offset, Len(data) + 1>>
EntryRecord(offset, data) == <<offset, Len(data)>>

AddFile(wr, name, data) ==
    LET offset == wr.pos
    IN  [wr EXCEPT !.file = FileWrite(wr.file, offset, data),
                   !.pos = offset + Len(data),
                   !.entries = DictSet(wr.entries, name, EntryRecord(offset, data))]

ObfuscatedIndex(wr) ==
    [i \in 1..Len(wr.entries) |->
        [k |-> wr.entries[i].k,
         v |-> << <<Xor(wr.entries[i].v[1], wr.key),
                    Xor(wr.entries[i].v[2], wr.key), <<>> >> >>]]

Header(index_offset, key) ==
    LET h == Encode(Magic) \o FormatHex(index_offset, 16) \o <<Ord(" ")>>
             \o FormatHex(key, 8) \o <<10>>
        padded == h \o [i \in 1..(HeaderLen - Len(h)) |-> 0]
    IN  SubSeq(padded, 1, HeaderLen)

FinishNoGuard(wr) ==
    LET index_offset == wr.pos
        index_data == ZlibCompress(PickleDumps(ObfuscatedIndex(wr)))
        f1 == FileWrite(wr.file, index_offset, index_data)
        f2 == FileWrite(f1, 0, Header(index_offset, wr.key))
    IN  [wr EXCEPT !.finished = TRUE, !.closed = TRUE, !.file = f2, !.pos = HeaderLen]
Finish(wr) ==
    IF wr.finished THEN wr
    ELSE LET index_offset == wr.pos
             index_data == ZlibCompress(PickleDumps(ObfuscatedIndex(wr)))
             f1 == FileWrite(wr.file, index_offset, index_data)
             f2 == FileWrite(f1, 0, Header(index_offset, wr.key))
         IN  [wr EXCEPT !.finished = TRUE, !.closed = TRUE, !.file = f2,
                        !.pos = HeaderLen]

Close(wr) == IF ~wr.closed THEN Finish(wr) ELSE wr

-----------------------------------------------------------------------------
(* RpaReader *)

NoReader == [state |-> "none", index_offset |-> 0, key |-> 0, index |-> <<>>, read |-> FALSE]

\* RpaReader.__init__ / _parse_header: "not_rpa" is the ValueError raised at
\* line 27, "bad_hex" the ValueError raised by int() at lines 28-29.
ParseHeader(file) ==
    LET header == Slice(file, 0, HeaderLen)
    IN  IF ~StartsWith(header, Encode(Magic))
        THEN [NoReader EXCEPT !.state = "not_rpa"]
        ELSE LET io == ParseHex(Slice(header, 8, 24))
                 ky == ParseHex(Slice(header, 25, 33))
             IN  IF ~io.ok \/ ~ky.ok
                 THEN [NoReader EXCEPT !.state = "bad_hex"]
                 ELSE [NoReader EXCEPT !.state = "open", !.index_offset = io.val,
                                       !.key = ky.val]

RpaEntry(name, offset, length, prefix) ==
    [name |-> name, offset |-> offset, length |-> length, prefix |-> prefix]

\* RpaReader.read_index: only the first tuple of a name is read.
ReadIndex(file, index_offset, key) ==
    LET raw == PickleLoads(ZlibDecompress(SubSeq(file, index_offset + 1, Len(file))))
    IN  [i \in 1..Len(raw) |->
            LET t == raw[i].v[1]
                prefix == IF Len(t) = 2 THEN <<>> ELSE t[3]
            IN  [k |-> raw[i].k,
                 v |-> RpaEntry(raw[i].k, Xor(t[1], key), Xor(t[2], key), prefix)]]

\* RpaReader.read_file: a read past the end of the file returns what is there.
ReadFile(file, entry) ==
    entry.prefix \o Slice(file, entry.offset, entry.offset + entry.length)

-----------------------------------------------------------------------------
(* The container specification: a writer, then a reader on its file *)

MaxAdds == 3
MaxCalls == 2
Keys == {0, 1, 1111638594, 2147483647}
RpaNames == {<<"a">>, <<"b", ".", "p">>, <<"c", "/", "d">>}
RpaData == {<<>>, <<7>>, <<1, 2>>}

\* One more finish() or close() call was made on the writer.
Called(wr) == [wr EXCEPT !.calls = Min(@ + 1, MaxCalls)]

InitRpa ==
    /\ \E key \in Keys : w = WriterInit(key) @@ [calls |-> 0]
    /\ wlog = <<>>
    /\ rd = NoReader
    /\ gin = <<>>
    /\ gout = [state |-> "unused", groups |-> <<>>, ungrouped |-> <<>>]
    /\ env = [arch |-> "none"]
    /\ bld = [pc |-> "unused"]

RpaAddFile ==
    /\ ~w.closed
    /\ Len(wlog) < MaxAdds
    /\ \E name \in RpaNames, data \in RpaData :
        /\ w' = AddFile(w, name, data)
        /\ wlog' = Append(wlog, <<name, data>>)
    /\ UNCHANGED <<rd, grpVars, bldVars>>

RpaFinish ==
    /\ rd.state = "none"
    /\ w' = Called(Finish(w))
    /\ UNCHANGED <<wlog, rd, grpVars, bldVars>>

RpaClose ==
    /\ rd.state = "none"
    /\ w' = Called(Close(w))
    /\ UNCHANGED <<wlog, rd, grpVars, bldVars>>

RpaOpenReader ==
    /\ w.closed
    /\ rd.state = "none"
    /\ rd' = ParseHeader(w.file)
    /\ UNCHANGED <<w, wlog, grpVars, bldVars>>

RpaReadIndex ==
    /\ rd.state = "open"
    /\ ~rd.read
    /\ rd' = [rd EXCEPT !.index = ReadIndex(w.file, rd.index_offset, rd.key),
                        !.read = TRUE]
    /\ UNCHANGED <<w, wlog, grpVars, bldVars>>

NextRpa == RpaAddFile \/ RpaFinish \/ RpaClose \/ RpaOpenReader \/ RpaReadIndex

SpecRpa == InitRpa /\ [][NextRpa]_vars

-----------------------------------------------------------------------------
(* The sequence grouper: encode.py, group_by_prefix *)

SEQUENCE_THRESHOLD == 5

Digits == {"0", "1", "2", "3", "4", "5", "6", "7", "8", "9"}

RECURSIVE ParseInt(_, _)
ParseInt(s, acc) ==
    IF s = <<>> THEN acc ELSE ParseInt(Tail(s), 10 * acc + (Ord(Head(s)) - 48))

\* The str comparison of Python: lexicographic by code point.
RECURSIVE StrLess(_, _)
StrLess(a, b) ==
    IF b = <<>> THEN FALSE
    ELSE IF a = <<>> THEN TRUE
    ELSE IF a[1] = b[1] THEN StrLess(Tail(a), Tail(b))
    ELSE Ord(a[1]) < Ord(b[1])

\* The position of the last "." of s, or 0.
LastDot(s) ==
    IF \E i \in 1..Len(s) : s[i] = "."
    THEN CHOOSE i \in 1..Len(s) : s[i] = "." /\ \A j \in (i + 1)..Len(s) : s[j] # "."
    ELSE 0

\* _NUM_RE = ^(.*?)(\d+)(\.[^.]+)$ : the extension starts at the last dot and is
\* followed by at least one character; the digits are the longest run that ends
\* right before it (the prefix is the shortest one that lets the rest match).
NumMatch(name) ==
    LET p == LastDot(name)
    IN  IF p < 2 \/ p = Len(name) \/ name[p - 1] \notin Digits
        THEN [ok |-> FALSE, prefix |-> <<>>, num |-> 0, ext |-> <<>>]
        ELSE LET k == CHOOSE i \in 1..(p - 1) :
                        /\ \A j \in i..(p - 1) : name[j] \in Digits
                        /\ (i = 1 \/ name[i - 1] \notin Digits)
             IN  [ok |-> TRUE,
                  prefix |-> SubSeq(name, 1, k - 1),
                  num |-> ParseInt(SubSeq(name, k, p - 1), 0),
                  ext |-> SubSeq(name, p, Len(name))]

\* The order of the (num, name) tuples under list.sort().
ItemLessByName(x, y) == StrLess(x[2], y[2])
ItemLess(x, y) == x[1] < y[1] \/ (x[1] = y[1] /\ StrLess(x[2], y[2]))

\* The place of items[i] after the (stable) sort.
Rank(items, i) ==
    1 + Cardinality({j \in 1..Len(items) :
            \/ ItemLess(items[j], items[i])
            \/ (~ItemLess(items[i], items[j]) /\ j < i)})

\* items.sort()
SortItems(items) ==
    [p \in 1..Len(items) |-> items[CHOOSE i \in 1..Len(items) : Rank(items, i) = p]]

ItemNames(items) == [i \in 1..Len(items) |-> items[i][2]]

\* The first loop: groups[prefix].append((num, name)), or ungrouped.append(name).
Bucketize(names) ==
    LET matched == SelectSeq(names, LAMBDA n : NumMatch(n).ok)
    IN  [groups |-> DictOfLists([t \in 1..Len(matched) |->
                        [k |-> NumMatch(matched[t]).prefix,
                         v |-> <<NumMatch(matched[t]).num, matched[t]>>]]),
         ungrouped |-> SelectSeq(names, LAMBDA n : ~NumMatch(n).ok)]

IsLargeStrict(items) == Len(items) > SEQUENCE_THRESHOLD
IsLarge(items) == Len(items) >= SEQUENCE_THRESHOLD

SmallBucketDropped(items) == <<>>
SmallBucket(items) == ItemNames(items)

\* The second loop: a sorted bucket becomes a group or is flattened into ungrouped.
RECURSIVE EmitGroups(_, _, _)
EmitGroups(groups, result, ungrouped) ==
    IF groups = <<>> THEN [groups |-> result, ungrouped |-> ungrouped]
    ELSE LET prefix == groups[1].k
             items == SortItems(groups[1].v)
         IN  IF IsLarge(items)
             THEN EmitGroups(Tail(groups), DictSet(result, prefix, ItemNames(items)),
                             ungrouped)
             ELSE EmitGroups(Tail(groups), result, ungrouped \o SmallBucket(items))

group_by_prefix(names) ==
    LET b == Bucketize(names)
    IN  EmitGroups(b.groups, <<>>, b.ungrouped)

-----------------------------------------------------------------------------
(* The grouper specification: an input list, then the call *)

MaxNames == 7

Str_x == <<"i", "/", "x">>
Png == <<".", "p", "n", "g">>
Jpg == <<".", "j", "p", "g">>

GroupNames ==
    { Str_x \o <<"1">> \o Png, Str_x \o <<"2">> \o Png, Str_x \o <<"3">> \o Png,
      Str_x \o <<"5">> \o Png, Str_x \o <<"1", "0">> \o Png,
      Str_x \o <<"0", "2">> \o Png,
      Str_x \o <<"4">> \o Jpg, Str_x \o <<"6">> \o Jpg,
      <<"i", "/", "y", "1">> \o Png,
      <<"i", "/", "s", "o", "l", "o">> \o Png,
      <<"i", "/", "v", "2">> }

RECURSIVE SortedSeq(_)
SortedSeq(S) ==
    IF S = {} THEN <<>>
    ELSE LET m == CHOOSE x \in S : \A y \in S \ {x} : StrLess(x, y)
         IN  <<m>> \o SortedSeq(S \ {m})

Reverse(s) == [i \in 1..Len(s) |-> s[Len(s) + 1 - i]]

\* The input lists: the names of a subset in ascending or descending order,
\* alone or followed by a second occurrence of one of them.
GroupInputs ==
    LET base == UNION { {SortedSeq(S), Reverse(SortedSeq(S))} :
                        S \in {T \in SUBSET GroupNames : Cardinality(T) <= MaxNames} }
    IN  base \cup { Append(b, b[1]) : b \in {c \in base : Len(c) > 0} }

InitGroup ==
    /\ gin \in GroupInputs
    /\ gout = [state |-> "input", groups |-> <<>>, ungrouped |-> <<>>]
    /\ w = NoWriter
    /\ wlog = <<>>
    /\ rd = NoReader
    /\ env = [arch |-> "none"]
    /\ bld = [pc |-> "unused"]

GrpCall ==
    /\ gout.state = "input"
    /\ gout' = [state |-> "done"] @@ group_by_prefix(gin)
    /\ UNCHANGED <<gin, rpaVars, bldVars>>

NextGroup == GrpCall

SpecGroup == InitGroup /\ [][NextGroup]_vars

-----------------------------------------------------------------------------
(* The classifier and the target names: encode.py, build.py *)

LowerChar(c) == IF Ord(c) >= 65 /\ Ord(c) <= 90 THEN Chr(Ord(c) + 32) ELSE c
Lower(s) == [i \in 1..Len(s) |-> LowerChar(s[i])]

\* PurePosixPath(name).name: what follows the last "/".
FinalName(s) ==
    IF \E i \in 1..Len(s) : s[i] = "/"
    THEN LET k == CHOOSE i \in 1..Len(s) :
                    s[i] = "/" /\ \A j \in (i + 1)..Len(s) : s[j] # "/"
         IN  SubSeq(s, k + 1, Len(s))
    ELSE s

\* PurePosixPath(name).suffix: from the last dot of the final component, unless
\* that dot is its first or its last character.
Suffix(s) ==
    LET n == FinalName(s)
        i == LastDot(n)
    IN  IF i > 1 /\ i < Len(n) THEN SubSeq(n, i, Len(n)) ELSE <<>>

IMAGE_EXTENSIONS ==
    { <<".", "j", "p", "g">>, <<".", "j", "p", "e", "g">>, <<".", "p", "n", "g">>,
      <<".", "w", "e", "b", "p">>, <<".", "b", "m", "p">> }

is_image(name) == Lower(Suffix(name)) \in IMAGE_EXTENSIONS

SKIP_PREFIXES == { <<"g", "u", "i", "/">> }

should_encode_folded(name) ==
    is_image(name) /\ ~(\E p \in SKIP_PREFIXES : StartsWith(Lower(name), p))
should_encode(name) ==
    is_image(name) /\ ~(\E p \in SKIP_PREFIXES : StartsWith(name, p))

AvifSuffix == <<".", "a", "v", "i", "f">>

\* get_avif_name: str(PurePosixPath(name).with_suffix('.avif')), for names
\* that PurePosixPath leaves as they are (no "//", "/./" or trailing "/").
get_avif_name(name) ==
    SubSeq(name, 1, Len(name) - Len(Suffix(name))) \o AvifSuffix

ReplaceChar(s, from, to) == [i \in 1..Len(s) |-> IF s[i] = from THEN to ELSE s[i]]

RECURSIVE StripChar(_, _)
StripChar(s, c) ==
    IF s = <<>> THEN s
    ELSE IF s[1] = c THEN StripChar(Tail(s), c)
    ELSE IF s[Len(s)] = c THEN StripChar(SubSeq(s, 1, Len(s) - 1), c)
    ELSE s

\* safe_prefix = prefix.replace('/', '_').replace(' ', '_').strip('_')
\* avis_name = f"sequences/{safe_prefix}.avis"
AvisName(prefix) ==
    <<"s", "e", "q", "u", "e", "n", "c", "e", "s", "/">>
    \o StripChar(ReplaceChar(ReplaceChar(prefix, "/", "_"), " ", "_"), "_")
    \o <<".", "a", "v", "i", "s">>

ManifestName == <<"r", "e", "n", "p", "a", "k", "_", "m", "a", "n", "i", "f", "e", "s", "t",
                  ".", "j", "s", "o", "n">>

-----------------------------------------------------------------------------
(* Images and the external encoders.  The first byte of an image file stands  *)
(* for what Pillow finds in it: 1 an 8x8 image, 2 a 16x16 image, anything     *)
(* else no image at all.  An AVIF blob is a tag and the source bytes; an AVIS *)
(* blob is a tag, the frame count and the frames' source bytes.               *)

AvifTag == 200
AvisTag == 201

Decodable(data) == data # <<>> /\ data[1] \in {1, 2}
ImageSize(data) == IF data[1] = 1 THEN <<8, 8>> ELSE <<16, 16>>

AvifBlob(data) == <<AvifTag>> \o data

AvisBlob(frames) == <<AvisTag, Len(frames)>> \o FlattenSeqs(frames)

\* The number of frames a sequence blob holds (0 for any other blob).
BlobFrames(blob) ==
    IF Len(blob) >= 2 /\ blob[1] = AvisTag THEN blob[2] ELSE 0

-----------------------------------------------------------------------------
(* Input archives.  An archive is a list of [name, prefix, stored, arity]:    *)
(* the index tuple of the name is (offset, length) or (offset, length,        *)
(* prefix), and the file's content is prefix + stored.                        *)

InputKey == 1111638594

BodyOf(items) == FlattenSeqs([i \in 1..Len(items) |-> items[i].stored])

\* The index of an archive whose body starts at position offset.
IndexOf2(items, offset, key) ==
    [i \in 1..Len(items) |->
        LET it == items[i]
            at == offset + Len(BodyOf(SubSeq(items, 1, i - 1)))
            t == IF it.arity = 2
                 THEN <<Xor(at, key), Xor(Len(it.stored), key)>>
                 ELSE <<Xor(at, key), Xor(Len(it.stored), key), it.prefix>>
        IN  [k |-> it.name, v |-> <<t>>]]

MakeArchive(items, key) ==
    LET body == BodyOf(items)
        index_offset == HeaderLen + Len(body)
    IN  Header(index_offset, key) \o body
        \o ZlibCompress(PickleDumps(IndexOf2(items, HeaderLen, key)))

Item(name, prefix, stored) ==
    [name |-> name, prefix |-> prefix, stored |-> stored,
     arity |-> IF prefix = <<>> THEN 2 ELSE 3]

RECURSIVE Decimal(_)
Decimal(n) ==
    IF n < 10 THEN <<Chr(48 + n)>> ELSE Append(Decimal(n \div 10), Chr(48 + (n % 10)))

\* The frames stem1.png .. stem<n>.png, all of size code dim except frame bad,
\* whose first byte is badcode; frame i holds the bytes <<code, id + i>>.
Run(stem, n, id, bad, badcode) ==
    [i \in 1..n |->
        Item(stem \o Decimal(i) \o Png, <<>>, <<IF i = bad THEN badcode ELSE 1, id + i>>)]

-----------------------------------------------------------------------------
(* The build's inputs *)

Name_b_png == <<"i", "/", "b">> \o Png
Name_b_jpg == <<"i", "/", "b">> \o Jpg
Name_C_PNG == <<"I", "/", "C", ".", "P", "N", "G">>
Name_rpy == <<"m", ".", "r", "p", "y">>
Name_gui == <<"g", "u", "i", "/", "k">> \o Png
Stem_a == <<"i", "/", "a", " ">>
Name_a(i) == Stem_a \o Decimal(i) \o Png

\* A run of five frames, a scatter image stored with a read-time prefix, a
\* script stored with a prefix and a skip-prefixed image.
ArchRun(bad, badcode) ==
    Run(Stem_a, SEQUENCE_THRESHOLD, 10, bad, badcode)
    \o << Item(Name_b_png, <<1>>, <<20>>),
          Item(Name_rpy, <<77>>, <<78, 79>>),
          Item(Name_gui, <<>>, <<1, 30>>) >>

\* Scatter images only: two that differ in the extension alone, one in upper case.
ArchMix ==
    << Item(Name_b_png, <<>>, <<1, 20>>),
       Item(Name_b_jpg, <<>>, <<1, 21>>),
       Item(Name_C_PNG, <<>>, <<2, 22>>),
       Item(Name_rpy, <<>>, <<78, 79>>) >>

\* Runs of 44, 22, 21, 5 and 22 frames (for the memory budget) and a scatter
\* image.
ArchBig(sizes) ==
    (IF 1 \in sizes THEN Run(<<"q", "/", "a">>, 44, 0, 0, 0) ELSE <<>>)
    \o (IF 2 \in sizes THEN Run(<<"q", "/", "b">>, 22, 50, 0, 0) ELSE <<>>)
    \o (IF 3 \in sizes THEN Run(<<"q", "/", "c">>, 21, 80, 0, 0) ELSE <<>>)
    \o (IF 4 \in sizes THEN Run(<<"q", "/", "d">>, 5, 110, 0, 0) ELSE <<>>)
    \o (IF 5 \in sizes THEN Run(<<"q", "/", "e">>, 22, 130, 0, 0) ELSE <<>>)
    \o << Item(Name_b_png, <<>>, <<1, 120>>) >>

\* The output of an earlier build, built again: it holds a manifest already.
ArchRebuilt ==
    << Item(Name_b_png, <<>>, <<1, 20>>),
       Item(ManifestName, <<>>, <<123, 125>>),
       Item(Name_rpy, <<>>, <<78, 79>>) >>

ArchiveItems(arch) ==
    CASE arch.kind = "run" -> ArchRun(arch.bad, arch.badcode)
      [] arch.kind = "rebuilt" -> ArchRebuilt
      [] arch.kind = "mix" -> ArchMix
      [] arch.kind = "big" -> ArchBig(arch.sizes)

\* The bytes of the input archive on disk.
InputFile == env.file

-----------------------------------------------------------------------------
(* The memory budget: build.py, _get_avis_mem_budget.  Memory is counted in   *)
(* units of MemUnit bytes.                                                    *)

MemUnit == 512
GiB == (1024 * 1024 * 1024) \div MemUnit
WORKER_BASE_MEM == (200 * 1024 * 1024) \div MemUnit
RGBA_BPP == 4
DEFAULT_RES == <<1920, 1080>>
FRAME_MEM_MULTIPLIER == 3

\* memkb is the MemAvailable value of /proc/meminfo in kB, -1 when the probe
\* raises and -2 when it finds no such line.  int(available * 0.5) is
\* memkb * 512 bytes.
get_avis_mem_budget_unfloored(workers, memkb) ==
    IF memkb < 0 THEN 4 * GiB
    ELSE (memkb * (1024 \div MemUnit)) \div 2 - workers * WORKER_BASE_MEM
get_avis_mem_budget(workers, memkb) ==
    IF memkb < 0 THEN 4 * GiB
    ELSE LET available == memkb * (1024 \div MemUnit)
             budget == (available \div 2) - workers * WORKER_BASE_MEM
         IN  Max(budget, GiB)

frame_mem == (DEFAULT_RES[1] * DEFAULT_RES[2] * RGBA_BPP * FRAME_MEM_MULTIPLIER) \div MemUnit

-----------------------------------------------------------------------------
(* The worker functions: build.py, _worker_encode_avif / _worker_encode_avis  *)

Result(tag, key, target, data, names) ==
    [tag |-> tag, key |-> key, target |-> target, data |-> data, names |-> names]

Raised(key) == Result("raise", key, <<>>, <<>>, <<>>)

\* The worker process died inside the encoder: the job has no result, and the
\* pool is broken.
Crashed(key) == Result("crash", key, <<>>, <<>>, <<>>)

\* encode_avif: Image.open raises on bytes that are no image, and the encoder
\* fails on the images the environment names.
AvifEncodes(name, data) == Decodable(data) /\ name \notin env.avif_fail

AvifFailResultNoData(name, data) == Result("avif_fail", name, name, <<>>, <<>>)
AvifFailResult(name, data) == Result("avif_fail", name, name, data, <<>>)

worker_encode_avif(name, entry) ==
    IF name \in env.read_fail THEN Raised(name)
    ELSE LET data == ReadFile(InputFile, entry)
         IN  IF Decodable(data) /\ name \in env.crash THEN Crashed(name)
             ELSE IF AvifEncodes(name, data)
             THEN Result("avif", name, get_avif_name(name), AvifBlob(data), <<>>)
             ELSE AvifFailResult(name, data)

\* The message of the ValueError for frame i (counted from 0) of another size.
SizeMessage(i, size, size0) ==
    <<"F", "r", "a", "m", "e", " ">> \o Decimal(i) \o <<" ", "h", "a", "s", " ", "s", "i", "z", "e", " ">>
    \o Decimal(size[1]) \o <<"x">> \o Decimal(size[2]) \o <<",", " ", "e", "x", "p", "e", "c", "t", "e", "d", " ">>
    \o Decimal(size0[1]) \o <<"x">> \o Decimal(size0[2])

AvisError(exc, err, lib) == [ok |-> FALSE, exc |-> exc, err |-> err, lib |-> lib, data |-> <<>>]

\* encode_avis (encode.py): the validation, then the encoder library. lib
\* tells how far the call got with the library: "untouched", "missing"
\* (_load_core_lib raised) or "called" (renpak_encode_avis ran).
encode_avis_load_first(prefix, frames) ==
    IF ~env.avis_lib
    THEN AvisError("FileNotFoundError", <<"l", "i", "b", "r", "e", "n", "p", "a", "k", "_", "c", "o", "r", "e", ".", "s", "o", " ", "n", "o", "t", " ", "f", "o", "u", "n", "d">>, "missing")
    ELSE IF frames = <<>> \/ \E i \in 1..Len(frames) : frames[i].size # frames[1].size
    THEN AvisError("ValueError", <<"i", "n", "v", "a", "l", "i", "d", " ", "f", "r", "a", "m", "e", "s">>, "called")
    ELSE [ok |-> TRUE, exc |-> "", err |-> <<>>, lib |-> "called",
          data |-> AvisBlob([i \in 1..Len(frames) |-> frames[i].data])]
encode_avis(prefix, frames) ==
    IF frames = <<>>
    THEN AvisError("ValueError", <<"N", "o", " ", "f", "r", "a", "m", "e", "s", " ", "t", "o", " ", "e", "n", "c", "o", "d", "e">>, "untouched")
    ELSE IF \E i \in 1..Len(frames) : frames[i].size # frames[1].size
    THEN LET i == CHOOSE i \in 1..Len(frames) :
                    /\ frames[i].size # frames[1].size
                    /\ \A j \in 1..(i - 1) : frames[j].size = frames[1].size
         IN  AvisError("ValueError", SizeMessage(i - 1, frames[i].size, frames[1].size),
                       "untouched")
    ELSE IF ~env.avis_lib
    THEN AvisError("FileNotFoundError", <<"l", "i", "b", "r", "e", "n", "p", "a", "k", "_", "c", "o", "r", "e", ".", "s", "o", " ", "n", "o", "t", " ", "f", "o", "u", "n", "d">>, "missing")
    ELSE IF prefix \in env.avis_enc_fail
    THEN AvisError("RuntimeError", <<"r", "e", "n", "p", "a", "k", "_", "e", "n", "c", "o", "d", "e", "_", "a", "v", "i", "s", " ", "f", "a", "i", "l", "e", "d">>, "called")
    ELSE [ok |-> TRUE, exc |-> "", err |-> <<>>, lib |-> "called",
          data |-> AvisBlob([i \in 1..Len(frames) |-> frames[i].data])]

\* The frame loop of _worker_encode_avis: the frames read and decoded so far,
\* or the first failure.
\* What the loop's turn for frame i does, given that it is reached: the first
\* frame sets the group's size, a later one is compared with it.
FrameStep(infos, i) ==
    IF infos[i].name \in env.read_fail THEN "raise"
    ELSE LET data == ReadFile(InputFile, infos[i])
         IN  IF ~Decodable(data) THEN "decode error"
             ELSE IF i > 1 /\ ImageSize(data) # ImageSize(ReadFile(InputFile, infos[1]))
             THEN "resolution mismatch"
             ELSE "ok"

AvisFrames(infos) ==
    LET stops == SelectSeq(Indices(infos), LAMBDA i : FrameStep(infos, i) # "ok")
    IN  IF stops # <<>> THEN [tag |-> FrameStep(infos, stops[1]), frames |-> <<>>]
        ELSE [tag |-> "frames",
              frames |-> [i \in 1..Len(infos) |->
                            LET data == ReadFile(InputFile, infos[i])
                            IN  [data |-> data, size |-> ImageSize(data)]]]

InfoNames(infos) == [i \in 1..Len(infos) |-> infos[i].name]

worker_encode_avis(prefix, entries_info) ==
    LET fr == AvisFrames(entries_info)
    IN  IF fr.tag = "raise" THEN Raised(prefix)
        ELSE IF fr.tag # "frames"
        THEN Result("avis_fail", prefix, <<>>, <<>>, InfoNames(entries_info))
        ELSE IF prefix \in env.crash THEN Crashed(prefix)
        ELSE LET enc == encode_avis(prefix, fr.frames)
             IN  IF ~enc.ok
                 THEN Result("avis_fail", prefix, <<>>, <<>>, InfoNames(entries_info))
                 ELSE Result("avis", prefix, AvisName(prefix), enc.data,
                             InfoNames(entries_info))

-----------------------------------------------------------------------------
(* The build scheduler: build.py, _build_rpa *)

BuildStart ==
    [pc |-> "start", images |-> <<>>, others |-> <<>>, seq_groups |-> <<>>,
     ungrouped |-> <<>>, avis_available |-> TRUE, total_tasks |-> 0,
     manifest |-> <<>>, encoded_results |-> <<>>, fallback |-> <<>>,
     done_count |-> 0, budget |-> 0, mem |-> 0, queue |-> <<>>,
     avis_futures |-> <<>>, avif_futures |-> <<>>, sublog |-> <<>>,
     raised |-> <<>>, exc |-> "none", progress |-> <<>>]

\* d[name] = from[name] for each of the names, in order.
DictSetAll(d, names, from) ==
    DictUpdate(d, [i \in 1..Len(names) |-> [k |-> names[i], v |-> DictGet(from, names[i])]])

\* sorted(images.keys())[:limit] are kept, the rest move to others.
LimitKeptAll(sorted, limit) == sorted
LimitKept(sorted, limit) == Slice(sorted, 0, limit)
LimitMovedNone(sorted, limit) == <<>>
LimitMoved(sorted, limit) == SubSeq(sorted, limit + 1, Len(sorted))

\* Lines 174-175: every group's names are appended to the ungrouped names.
DissolvedDropped(g) == g.ungrouped
Dissolved(g) == g.ungrouped \o DictValuesFlat(g.groups)

\* Lines 146-189: the index, the classification, the limit, the grouping and
\* the capability probe.
Prepare ==
    /\ bld.pc = "start"
    /\ LET hdr == ParseHeader(InputFile)
           index == ReadIndex(InputFile, hdr.index_offset, hdr.key)
           images0 == SelectSeq(index, LAMBDA e : should_encode(e.k))
           others0 == SelectSeq(index, LAMBDA e : ~should_encode(e.k))
           sorted == SortedSeq(DictKeys(images0))
           images1 == IF env.limit > 0
                      THEN DictSetAll(<<>>, LimitKept(sorted, env.limit), images0)
                      ELSE images0
           others1 == IF env.limit > 0
                      THEN DictSetAll(others0, LimitMoved(sorted, env.limit), images0)
                      ELSE others0
           g == group_by_prefix(DictKeyList(images1))
           ungrouped == IF env.avis_lib THEN g.ungrouped ELSE Dissolved(g)
           groups == IF env.avis_lib THEN g.groups ELSE <<>>
       IN  bld' = [bld EXCEPT
                !.pc = "encode",
                !.images = images1,
                !.others = others1,
                !.seq_groups = groups,
                !.ungrouped = ungrouped,
                !.avis_available = env.avis_lib,
                !.total_tasks = (IF env.avis_lib THEN Len(groups) ELSE 0) + Len(ungrouped)]
    /\ UNCHANGED <<env, rpaVars, grpVars>>

\* sorted(seq_groups.items(), key=lambda kv: -len(kv[1])): stable.
InsertGroupFirst(x, sorted) == <<x>> \o sorted
RECURSIVE InsertGroup(_, _)
InsertGroup(x, sorted) ==
    IF sorted = <<>> THEN <<x>>
    ELSE IF Len(x.v) > Len(Head(sorted).v) THEN <<x>> \o sorted
    ELSE <<Head(sorted)>> \o InsertGroup(x, Tail(sorted))

RECURSIVE SortGroupsDesc(_)
SortGroupsDesc(gs) ==
    IF gs = <<>> THEN <<>>
    ELSE InsertGroup(gs[Len(gs)], SortGroupsDesc(SubSeq(gs, 1, Len(gs) - 1)))

\* Lines 236-248: the pool, and the set-up of Phase 1 when there are groups.
PhaseAStart ==
    /\ bld.pc = "encode"
    /\ IF bld.avis_available /\ bld.seq_groups # <<>>
       THEN bld' = [bld EXCEPT
                !.pc = "submit",
                !.queue = SortGroupsDesc(bld.seq_groups),
                !.budget = get_avis_mem_budget(env.workers, env.mem_kb),
                !.mem = 0,
                !.avis_futures = <<>>]
       ELSE bld' = [bld EXCEPT !.pc = "phaseB_submit"]
    /\ UNCHANGED <<env, rpaVars, grpVars>>

GroupMemFlat(names) == frame_mem
GroupMem(names) == Len(names) * frame_mem

\* Line 257: the head of the queue has to wait.
BlockedIgnoringHead(st, group_mem) == st.avis_futures # <<>> /\ st.mem > st.budget
BlockedAlsoWhenIdle(st, group_mem) == st.mem + group_mem > st.budget
Blocked(st, group_mem) == st.avis_futures # <<>> /\ st.mem + group_mem > st.budget

EntriesInfo(names) == [i \in 1..Len(names) |-> DictGet(bld.images, names[i])]

\* Lines 253-267: one turn of the loop of _submit_avis_groups that submits.
AvisSubmit ==
    /\ bld.pc = "submit"
    /\ bld.queue # <<>>
    /\ LET prefix == Head(bld.queue).k
           names == Head(bld.queue).v
           group_mem == GroupMem(names)
       IN  /\ ~Blocked(bld, group_mem)
           /\ bld' = [bld EXCEPT
                !.queue = Tail(bld.queue),
                !.avis_futures = Append(bld.avis_futures,
                    [prefix |-> prefix, infos |-> EntriesInfo(names),
                     nframes |-> Len(names), group_mem |-> group_mem]),
                !.mem = bld.mem + group_mem,
                !.sublog = Append(bld.sublog, [kind |-> "avis", key |-> prefix])]
    /\ UNCHANGED <<env, rpaVars, grpVars>>

\* Lines 253-258, 274: the loop of _submit_avis_groups ends (the queue is empty
\* or its head has to wait), and the scheduler waits while tasks are in flight.
AvisSubmitEnd ==
    /\ bld.pc = "submit"
    /\ IF bld.queue = <<>> THEN TRUE ELSE Blocked(bld, GroupMem(Head(bld.queue).v))
    /\ bld' = [bld EXCEPT
            !.pc = IF bld.avis_futures # <<>> THEN "wait" ELSE "phaseB_submit"]
    /\ UNCHANGED <<env, rpaVars, grpVars>>

Remove(s, i) == SubSeq(s, 1, i - 1) \o SubSeq(s, i + 1, Len(s))

\* for frame_idx, name in enumerate(names): manifest[name] = {...}
ManifestFramesOneBased(manifest, names, avis_name) ==
    DictUpdate(manifest,
        [i \in 1..Len(names) |->
            [k |-> names[i], v |-> [kind |-> "avis", target |-> avis_name, frame |-> i]]])
ManifestFrames(manifest, names, avis_name) ==
    DictUpdate(manifest,
        [i \in 1..Len(names) |->
            [k |-> names[i], v |-> [kind |-> "avis", target |-> avis_name, frame |-> i - 1]]])

FallbackNamesNone(result) == <<>>
FallbackNames(result) == result.names

AvifManifestByTarget(st, result) ==
    DictSet(st.manifest, result.target, [kind |-> "avif", target |-> result.key, frame |-> 0])
AvifManifest(st, result) ==
    DictSet(st.manifest, result.key, [kind |-> "avif", target |-> result.target, frame |-> 0])

\* Lines 191-222: _collect_result.
collect_result(st, result) ==
    CASE result.tag = "avis" ->
            [st EXCEPT
                !.encoded_results = Append(st.encoded_results, <<result.target, result.data>>),
                !.manifest = ManifestFrames(st.manifest, result.names, result.target)]
      [] result.tag = "avis_fail" ->
            [st EXCEPT !.fallback = st.fallback \o FallbackNames(result)]
      [] result.tag = "avif" ->
            [st EXCEPT
                !.encoded_results = Append(st.encoded_results, <<result.target, result.data>>),
                !.manifest = AvifManifest(st, result)]
      [] result.tag = "avif_fail" ->
            [st EXCEPT
                !.encoded_results = Append(st.encoded_results, <<result.key, result.data>>)]
      [] OTHER -> st

\* _collect_result returns a message for these results (lines 202, 207, 219).
HasMessage(result) == result.tag \in {"avis", "avis_fail", "avif_fail"}

\* Lines 224-234: _progress prints [done_count/total_tasks]; progress holds the
\* two numbers of the last report.
progress(st) == [st EXCEPT !.progress = <<st.done_count, st.total_tasks>>]

\* fut.result() re-raises what the worker raised, or raises BrokenProcessPool
\* when the worker process died: the build is left by the
\* exception, before the output is opened.
Raises(result) == result.tag \in {"raise", "crash"}
Abort(st, result) ==
    [st EXCEPT !.pc = "aborted", !.raised = result.key,
               !.exc = IF result.tag = "crash" THEN "BrokenProcessPool"
                       ELSE "worker exception"]

\* Lines 274-285: one AVIS task completes, its result is collected and the
\* progress is reported.
AvisCollect ==
    /\ bld.pc = "wait"
    /\ \E i \in 1..Len(bld.avis_futures) :
        LET fut == bld.avis_futures[i]
            st == [bld EXCEPT
                    !.avis_futures = Remove(bld.avis_futures, i),
                    !.mem = bld.mem - fut.group_mem,
                    !.done_count = bld.done_count + 1]
            result == worker_encode_avis(fut.prefix, fut.infos)
        IN  bld' = IF Raises(result) THEN Abort(st, result)
                   ELSE IF HasMessage(result)
                   THEN [progress(collect_result(st, result)) EXCEPT !.pc = "submit"]
                   ELSE [collect_result(st, result) EXCEPT !.pc = "submit"]
    /\ UNCHANGED <<env, rpaVars, grpVars>>

InImages(names) == SelectSeq(names, LAMBDA n : DictHas(bld.images, n))

FallbackJobsNone(st) == <<>>
FallbackJobsAlsoUngrouped(st) == InImages(st.fallback) \o InImages(st.ungrouped)
FallbackJobs(st) == InImages(st.fallback)

\* Lines 287-308: one AVIF task per ungrouped name and per fallback name.
PhaseBSubmit ==
    /\ bld.pc = "phaseB_submit"
    /\ LET jobs == InImages(bld.ungrouped) \o FallbackJobs(bld)
       IN  bld' = [bld EXCEPT
                !.pc = "phaseB",
                !.avif_futures = jobs,
                !.sublog = bld.sublog
                    \o [i \in 1..Len(jobs) |-> [kind |-> "avif", key |-> jobs[i]]]]
    /\ UNCHANGED <<env, rpaVars, grpVars>>

\* Lines 310-317: one AVIF task completes and its result is collected; the
\* progress is reported when the result has a message and after every 50th job.
AvifCollect ==
    /\ bld.pc = "phaseB"
    /\ \E i \in 1..Len(bld.avif_futures) :
        LET name == bld.avif_futures[i]
            st == [bld EXCEPT
                    !.avif_futures = Remove(bld.avif_futures, i),
                    !.done_count = bld.done_count + 1]
            result == worker_encode_avif(name, DictGet(bld.images, name))
            avif_done == Len(SelectSeq(bld.sublog, LAMBDA j : j.kind = "avif"))
                         - Len(st.avif_futures)
        IN  bld' = IF Raises(result) THEN Abort(st, result)
                   ELSE IF HasMessage(result) \/ avif_done % 50 = 0
                   THEN progress(collect_result(st, result))
                   ELSE collect_result(st, result)
    /\ UNCHANGED <<env, rpaVars, grpVars>>

-----------------------------------------------------------------------------
(* The manifest's text and the write phase *)

DQ == "<dquote>"
Quote(str) == <<DQ>> \o str \o <<DQ>>

JsonValue(v) ==
    IF v.kind = "avif" THEN Quote(v.target)
    ELSE <<"{">> \o Quote(<<"a", "v", "i", "s">>) \o <<":", " ">> \o Quote(v.target)
         \o <<",", " ">> \o Quote(<<"f", "r", "a", "m", "e">>) \o <<":", " ">>
         \o Decimal(v.frame) \o <<"}">>

JsonItems(d) ==
    FlattenSeqs([i \in 1..Len(d) |->
        Quote(d[i].k) \o <<":", " ">> \o JsonValue(d[i].v)
        \o (IF i < Len(d) THEN <<",", " ">> ELSE <<>>)])

\* json.dumps(manifest, ensure_ascii=False, indent=None).encode('utf-8'), for
\* names that need no escape.
JsonDumps(manifest) == Encode(<<"{">> \o JsonItems(manifest) \o <<"}">>)

\* writer.add_file(name, data) for each of adds in order (by halves).
RECURSIVE AddAll(_, _)
AddAll(wr, adds) ==
    IF Len(adds) = 0 THEN wr
    ELSE IF Len(adds) = 1 THEN AddFile(wr, adds[1][1], adds[1][2])
    ELSE LET h == Len(adds) \div 2
         IN  AddAll(AddAll(wr, SubSeq(adds, 1, h)), SubSeq(adds, h + 1, Len(adds)))

OthersCopied(st) ==
    [i \in 1..Len(st.others) |-> <<st.others[i].k, ReadFile(InputFile, st.others[i].v)>>]

\* Lines 322-340: the output is written by the scheduler: the encoded results
\* in the order they were collected, the other entries, the manifest; leaving
\* the with block closes the writer, which finishes the archive.
WritePhase ==
    /\ bld.pc = "phaseB"
    /\ bld.avif_futures = <<>>
    /\ LET adds == bld.encoded_results \o OthersCopied(bld)
                   \o << <<ManifestName, JsonDumps(bld.manifest)>> >>
       IN  /\ w' = Close(AddAll(WriterInit(env.key), adds))
           /\ wlog' = adds
    /\ bld' = [bld EXCEPT !.pc = "done"]
    /\ UNCHANGED <<env, rd, grpVars>>

Next ==
    \/ Prepare
    \/ PhaseAStart
    \/ AvisSubmit
    \/ AvisSubmitEnd
    \/ AvisCollect
    \/ PhaseBSubmit
    \/ AvifCollect
    \/ WritePhase

-----------------------------------------------------------------------------
(* The build specifications *)

MaxFaults == 2

RunArchs ==
    { [kind |-> "run", bad |-> 0, badcode |-> 1],     \* five equal frames
      [kind |-> "run", bad |-> 3, badcode |-> 2],     \* frame 3 has another size
      [kind |-> "run", bad |-> 2, badcode |-> 0] }    \* frame 2 is no image

MixArch == [kind |-> "mix"]
RebuiltArch == [kind |-> "rebuilt"]

ArchNames(arch) == {ArchiveItems(arch)[i].name : i \in 1..Len(ArchiveItems(arch))}

\* What departs from the plain build of the archive.
Faults(e) ==
    (IF e.arch.kind = "run" /\ e.arch.bad # 0 THEN 1 ELSE 0)
    + (IF e.avis_lib THEN 0 ELSE 1)
    + (IF e.limit > 0 THEN 1 ELSE 0)
    + Cardinality(e.avis_enc_fail) + Cardinality(e.avif_fail) + Cardinality(e.read_fail)
    + Cardinality(e.crash)

Envs ==
    { e \in [arch : RunArchs \cup {MixArch, RebuiltArch},
             limit : {0, 3, 8},
             avis_lib : BOOLEAN,
             mem_kb : {-1},
             workers : {2},
             avis_enc_fail : SUBSET {Stem_a},
             avif_fail : SUBSET {Name_b_png, Name_a(1), Name_C_PNG},
             read_fail : SUBSET {Name_b_png, Name_a(4)},
             crash : SUBSET {Stem_a, Name_b_png},
             key : {InputKey}] :
        /\ Faults(e) <= MaxFaults
        /\ e.avif_fail \cup e.read_fail \subseteq ArchNames(e.arch)
        /\ e.arch.kind # "run" => (e.avis_enc_fail = {} /\ Stem_a \notin e.crash)
        /\ e.arch.kind = "rebuilt" => e.limit = 0 }

InitOther ==
    /\ w = NoWriter
    /\ wlog = <<>>
    /\ rd = NoReader
    /\ gin = <<>>
    /\ gout = [state |-> "unused", groups |-> <<>>, ungrouped |-> <<>>]

\* The environment of a build: its parameters and the input archive's bytes.
WithFile(e) == e @@ [file |-> MakeArchive(ArchiveItems(e.arch), e.key)]

Init ==
    /\ \E e \in Envs : env = WithFile(e)
    /\ bld = BuildStart
    /\ InitOther

Spec == Init /\ [][Next]_vars

\* Archives whose runs are large enough to fill the memory budget; only the
\* smallest run may fail to encode.
BigSizes == {{1}, {1, 4}, {2, 3}, {2, 3, 4}, {2, 4}, {3, 4}}

BigEnvs ==
    { e \in [arch : {[kind |-> "big", sizes |-> z] : z \in BigSizes},
             limit : {0},
             avis_lib : {TRUE},
             mem_kb : {-1, 1000000, 6000000},
             workers : {2, 4},
             avis_enc_fail : SUBSET {<<"q", "/", "d">>},
             avif_fail : {{}},
             read_fail : {{}},
             crash : {{}},
             key : {InputKey}] :
        (e.workers = 4) = (e.mem_kb = 6000000) }

InitBudget ==
    /\ \E e \in BigEnvs : env = WithFile(e)
    /\ bld = BuildStart
    /\ InitOther

SpecBudget == InitBudget /\ [][Next]_vars

-----------------------------------------------------------------------------
(* C1 *)

WrittenNames == {wlog[i][1] : i \in 1..Len(wlog)}
DistinctWritten == \A i, j \in 1..Len(wlog) : wlog[i][1] = wlog[j][1] => i = j

\* C1: container round trip. When the names passed to add_file are pairwise
\* distinct, the index read back from the finished file has exactly the written
\* names as its keys, and read_file of each entry returns exactly the bytes
\* written under that name (zero-length bytes included).
C1_RoundTrip ==
    (rd.state = "open" /\ rd.read /\ DistinctWritten) =>
        /\ DictKeys(rd.index) = WrittenNames
        /\ \A i \in 1..Len(wlog) :
            ReadFile(w.file, DictGet(rd.index, wlog[i][1])) = wlog[i][2]

C1_Witness ==
    /\ rd.state = "open" /\ rd.read /\ DistinctWritten
    /\ Len(wlog) = 3
    /\ \E i \in 1..Len(wlog) : wlog[i][2] = <<>>
    /\ \E i \in 1..Len(wlog) : Len(wlog[i][2]) = 2
    /\ w.key = 1111638594

-----------------------------------------------------------------------------
(* C7 - C10: the grouper *)

Count(x, s) == Cardinality({i \in 1..Len(s) : s[i] = x})
Range(s) == {s[i] : i \in 1..Len(s)}

GroupedNames == DictValuesFlat(gout.groups)

\* C7: grouper partition. The multiset of all group members plus the ungrouped
\* names equals the multiset of the input names: every input name appears exactly
\* once (per occurrence) in exactly one of the two outputs, and nothing else does.
C7_Partition ==
    gout.state = "done" =>
        /\ Range(GroupedNames \o gout.ungrouped) = Range(gin)
        /\ \A n \in Range(gin) :
            Count(n, GroupedNames \o gout.ungrouped) = Count(n, gin)

C7_Witness ==
    /\ gout.state = "done"
    /\ Len(gout.groups) = 1
    /\ Len(gout.ungrouped) >= 2
    /\ \E n \in Range(gin) : Count(n, gin) = 2
    /\ \E n \in Range(gout.ungrouped) : NumMatch(n).ok
    /\ \E n \in Range(gout.ungrouped) : ~NumMatch(n).ok

\* C8: grouper bucket key. Two names with the same prefix and trailing integer
\* pattern but different file extensions are never members of the same group.
C8_NoMixedExtensions ==
    gout.state = "done" =>
        \A g \in 1..Len(gout.groups) :
            \A i, j \in 1..Len(gout.groups[g].v) :
                NumMatch(gout.groups[g].v[i]).ext = NumMatch(gout.groups[g].v[j]).ext

\* C9: group order. The members of every group are in ascending order of the
\* parsed trailing integer (numeric: x2 before x10), and members with the same
\* integer are in lexicographic order of their names.
C9_GroupOrder ==
    gout.state = "done" =>
        \A g \in 1..Len(gout.groups) :
            LET ms == gout.groups[g].v
            IN  \A i, j \in 1..Len(ms) :
                    i < j =>
                        \/ NumMatch(ms[i]).num < NumMatch(ms[j]).num
                        \/ /\ NumMatch(ms[i]).num = NumMatch(ms[j]).num
                           /\ ~StrLess(ms[j], ms[i])

Name_x2 == Str_x \o <<"2">> \o Png
Name_x02 == Str_x \o <<"0", "2">> \o Png
Name_x10 == Str_x \o <<"1", "0">> \o Png

IndexOf(s, x) == CHOOSE i \in 1..Len(s) : s[i] = x

C9_Witness ==
    /\ gout.state = "done"
    /\ Len(gout.groups) = 1
    /\ Name_x2 \in Range(gin) /\ Name_x10 \in Range(gin)
    /\ IndexOf(gin, Name_x10) < IndexOf(gin, Name_x2)
    /\ LET ms == gout.groups[1].v
       IN  /\ {Name_x2, Name_x02, Name_x10} \subseteq Range(ms)
           /\ IndexOf(ms, Name_x02) < IndexOf(ms, Name_x2)
           /\ IndexOf(ms, Name_x2) < IndexOf(ms, Name_x10)

\* The occurrences in the input that the regular expression gives this prefix.
Bucket(prefix) ==
    {i \in 1..Len(gin) : NumMatch(gin[i]).ok /\ NumMatch(gin[i]).prefix = prefix}

InputPrefixes == {NumMatch(gin[i]).prefix : i \in {j \in 1..Len(gin) : NumMatch(gin[j]).ok}}

\* C10: threshold boundary. A bucket with at least SEQUENCE_THRESHOLD members
\* (exactly 5 included) is emitted as a group holding all its members; a bucket
\* with fewer is not emitted and its members are all ungrouped; a name with no
\* trailing integer before the extension is ungrouped.
C10_Threshold ==
    gout.state = "done" =>
        /\ \A i \in 1..Len(gin) :
            ~NumMatch(gin[i]).ok =>
                gin[i] \in Range(gout.ungrouped) /\ gin[i] \notin Range(GroupedNames)
        /\ \A p \in InputPrefixes :
            LET n == Cardinality(Bucket(p))
            IN  /\ n >= SEQUENCE_THRESHOLD =>
                    /\ DictHas(gout.groups, p)
                    /\ Len(DictGet(gout.groups, p)) = n
                    /\ Range(DictGet(gout.groups, p)) = {gin[i] : i \in Bucket(p)}
                /\ n < SEQUENCE_THRESHOLD =>
                    /\ ~DictHas(gout.groups, p)
                    /\ \A i \in Bucket(p) :
                        gin[i] \in Range(gout.ungrouped) /\ gin[i] \notin Range(GroupedNames)
        /\ DictKeys(gout.groups) \subseteq InputPrefixes

C10_Witness ==
    /\ gout.state = "done"
    /\ Cardinality(Bucket(Str_x)) = SEQUENCE_THRESHOLD
    /\ DictHas(gout.groups, Str_x)
    /\ Cardinality(Bucket(<<"i", "/", "y">>)) = 1
    /\ \E i \in 1..Len(gin) : ~NumMatch(gin[i]).ok

-----------------------------------------------------------------------------
(* C2 - C6: the build *)

Built == bld.pc = "done"
ImageNames == DictKeys(bld.images)

\* The bytes of image n in the input archive.
Orig(n) == ReadFile(InputFile, DictGet(bld.images, n))

\* The output archive, as a reader finds it.
OutHeader == ParseHeader(w.file)
OutIndex == ReadIndex(w.file, OutHeader.index_offset, OutHeader.key)
OutRead(out, name) == ReadFile(w.file, DictGet(out, name))

AsSequence(n) == DictHas(bld.manifest, n) /\ DictGet(bld.manifest, n).kind = "avis"
AsAvif(n) == DictHas(bld.manifest, n) /\ DictGet(bld.manifest, n).kind = "avif"
CopiedVerbatim(out, n) == DictHas(out, n) /\ OutRead(out, n) = Orig(n)

\* The terminal states of image n, given the index out of the output archive.
TerminalStates(out, n) ==
    (IF AsSequence(n) THEN {"manifested-as-sequence"} ELSE {})
    \cup (IF AsAvif(n) THEN {"manifested-as-avif"} ELSE {})
    \cup (IF CopiedVerbatim(out, n) THEN {"copied verbatim"} ELSE {})

\* C2: per-image state machine. In every completed build, whatever the order of
\* the completions and whatever the workers' outcomes, each image selected for
\* encoding is in exactly one terminal state: it has a sequence entry in the
\* manifest, or an AVIF entry in the manifest, or it is in the output under its
\* own name with its own bytes and has no manifest entry.
C2_OneTerminalState ==
    Built =>
        LET out == OutIndex
        IN  \A n \in ImageNames : Cardinality(TerminalStates(out, n)) = 1

C2_Witness ==
    /\ Built
    /\ Len(bld.encoded_results) = 2
    /\ LET out == OutIndex
       IN  /\ \E n \in ImageNames : TerminalStates(out, n) = {"manifested-as-sequence"}
           /\ \E n \in ImageNames : TerminalStates(out, n) = {"copied verbatim"}

PhaseA == bld.pc \in {"submit", "wait"}

\* C3: memory-budget admission. At every point of Phase A the memory in flight
\* is within the budget or exactly one AVIS task is in flight; and a step that
\* admits a group next to tasks already in flight leaves the memory in flight
\* within the budget.
C3_Admission ==
    /\ [](PhaseA => (bld.mem <= bld.budget \/ Len(bld.avis_futures) = 1))
    /\ [][(/\ PhaseA
           /\ bld.avis_futures # <<>>
           /\ Len(bld'.avis_futures) > Len(bld.avis_futures))
          => bld'.mem <= bld.budget]_vars

C3_Witness ==
    /\ bld.pc = "wait"
    /\ bld.mem > bld.budget
    /\ Len(bld.avis_futures) = 1
    /\ bld.queue # <<>>

\* The groups whose AVIS job fails (a failure is a result, not an exception).
FailedGroups ==
    {g \in 1..Len(bld.seq_groups) :
        worker_encode_avis(bld.seq_groups[g].k, EntriesInfo(bld.seq_groups[g].v)).tag
            = "avis_fail"}

AvifJob(n) == [kind |-> "avif", key |-> n]

\* C4: AVIS failure fallback. Once Phase B has submitted its jobs, for every
\* group whose AVIS job fails (frame sizes differ, a frame does not decode, the
\* encoder fails): no artifact with the group's sequences/ name is collected or
\* written, no member has a sequence entry in the manifest, and every member
\* was submitted exactly once as an AVIF job.
C4_Fallback ==
    bld.pc \in {"phaseB", "done"} =>
        \A g \in FailedGroups :
            LET prefix == bld.seq_groups[g].k
                names == bld.seq_groups[g].v
            IN  /\ \A i \in 1..Len(bld.encoded_results) :
                    bld.encoded_results[i][1] # AvisName(prefix)
                /\ Built => AvisName(prefix) \notin WrittenNames
                /\ \A i \in 1..Len(names) :
                    /\ ~AsSequence(names[i])
                    /\ Count(AvifJob(names[i]), bld.sublog) = 1

C4_Witness ==
    /\ Built
    /\ env.arch.kind = "run" /\ env.arch.bad = 3
    /\ FailedGroups = {1}
    /\ \A i \in 1..Len(bld.seq_groups[1].v) : AsAvif(bld.seq_groups[1].v[i])

\* The AVIF job of image n ran and failed.
AvifFailed(n) ==
    /\ AvifJob(n) \in Range(bld.sublog)
    /\ n \notin env.read_fail
    /\ ~AvifEncodes(n, Orig(n))

\* The exception that ended the build came from a read that failed.
AbortedByRead ==
    \/ bld.raised \in env.read_fail
    \/ \E g \in 1..Len(bld.seq_groups) :
        /\ bld.seq_groups[g].k = bld.raised
        /\ Range(bld.seq_groups[g].v) \cap env.read_fail # {}

\* C5: AVIF failure recovery. In a completed build every image whose AVIF job
\* failed is in the output archive under its original name with its original
\* bytes and has no manifest entry; and an AVIF failure never ends the build:
\* a build ends early only on an exception raised by a read or on a worker
\* process that died.
C5_AvifFailure ==
    /\ Built =>
        LET out == OutIndex
        IN  \A n \in ImageNames :
                AvifFailed(n) => (CopiedVerbatim(out, n) /\ ~DictHas(bld.manifest, n))
    /\ bld.pc = "aborted" => (AbortedByRead \/ bld.exc = "BrokenProcessPool")

C5_Witness ==
    /\ Built
    /\ AvifFailed(Name_b_png)
    /\ CopiedVerbatim(OutIndex, Name_b_png)
    /\ Name_b_png \in env.avif_fail
    /\ bld.manifest # <<>>

\* The frames of the group that image n belongs to.
GroupBlob(n) ==
    LET g == CHOOSE h \in 1..Len(bld.seq_groups) : n \in Range(bld.seq_groups[h].v)
        names == bld.seq_groups[g].v
    IN  AvisBlob([j \in 1..Len(names) |-> Orig(names[j])])

\* C6: manifest reachability. After a completed build, for every key of the
\* manifest: a string value names an entry of the output index that holds the
\* AVIF blob encoded from the key's image; an object value names an entry of the
\* output index that holds the sequence blob of the key's group, with at least
\* frame + 1 frames.
C6_ManifestReachable ==
    Built =>
        LET out == OutIndex
        IN  \A i \in 1..Len(bld.manifest) :
                LET key == bld.manifest[i].k
                    v == bld.manifest[i].v
                IN  /\ DictHas(out, v.target)
                    /\ v.kind = "avif" => OutRead(out, v.target) = AvifBlob(Orig(key))
                    /\ v.kind = "avis" =>
                        /\ BlobFrames(OutRead(out, v.target)) >= v.frame + 1
                        /\ OutRead(out, v.target) = GroupBlob(key)

-----------------------------------------------------------------------------
(* C11 - C12: the limit *)

\* The index of the input archive, as a reader finds it.
InputHeader == ParseHeader(InputFile)
InputIndex == ReadIndex(InputFile, InputHeader.index_offset, InputHeader.key)
InputBytes(idx, n) == ReadFile(InputFile, DictGet(idx, n))

\* The images the build encodes.
Candidates == DictKeys(bld.images)

\* Image r of the input index idx is in the output out under its own name with
\* its own bytes and has no manifest entry.
ImageCopied(idx, out, r) ==
    /\ DictHas(out, r)
    /\ OutRead(out, r) = InputBytes(idx, r)
    /\ ~DictHas(bld.manifest, r)

\* C11: limit selection. With limit = 0 or limit >= the number of images every
\* image is an encoding candidate; with 0 < limit < the number of images the
\* candidates are exactly the first limit images by sorted name, and in the
\* completed build every other image is in the output under its original name
\* with its original bytes and has no manifest entry.
C11_LimitSelection ==
    bld.pc \in {"encode", "done"} =>
        LET idx == InputIndex
            all == {n \in DictKeys(idx) : should_encode(n)}
        IN  /\ (env.limit = 0 \/ env.limit >= Cardinality(all)) => Candidates = all
            /\ (0 < env.limit /\ env.limit < Cardinality(all)) =>
                /\ Candidates \subseteq all
                /\ Cardinality(Candidates) = env.limit
                /\ \A c \in Candidates : \A r \in all \ Candidates : StrLess(c, r)
                /\ Built =>
                    LET out == OutIndex
                    IN  \A r \in all \ Candidates : ImageCopied(idx, out, r)

C11_Witness ==
    /\ Built
    /\ env.limit = 3
    /\ Cardinality(Candidates) = 3
    /\ Name_b_png \notin Candidates
    /\ ImageCopied(InputIndex, OutIndex, Name_b_png)
    /\ AsAvif(Name_a(1))

\* The images of the input index idx that the limit selects.
Selected(idx) ==
    LET all == {n \in DictKeys(idx) : should_encode(n)}
    IN  IF env.limit > 0
        THEN {n \in all : Cardinality({m \in all : StrLess(m, n)}) < env.limit}
        ELSE all

\* The members of set S that the grouper's pattern gives prefix p.
MembersIn(S, p) == {n \in S : NumMatch(n).ok /\ NumMatch(n).prefix = p}

AvisJob(prefix) == [kind |-> "avis", key |-> prefix]

\* C12: the limit is applied before grouping. An AVIS job is submitted only for
\* a prefix of which at least SEQUENCE_THRESHOLD members are selected by the
\* limit (seen while AVIS jobs are in flight and in the completed build); in the
\* completed build the selected members of a run with fewer surviving members
\* were each submitted once as an AVIF job, and the members cut by the limit are
\* copied verbatim (limit 3 on a run of five: three AVIF jobs, two verbatim copies, no
\* AVIS job).
C12_LimitBeforeGrouping ==
    bld.pc \in {"wait", "done"} =>
        LET idx == InputIndex
            sel == Selected(idx)
        IN  /\ \A i \in 1..Len(bld.sublog) :
                bld.sublog[i].kind = "avis" =>
                    Cardinality(MembersIn(sel, bld.sublog[i].key)) >= SEQUENCE_THRESHOLD
            /\ Built =>
                \A n \in sel :
                    (/\ NumMatch(n).ok
                     /\ Cardinality(MembersIn(sel, NumMatch(n).prefix)) < SEQUENCE_THRESHOLD)
                    => Count(AvifJob(n), bld.sublog) = 1
            /\ Built =>
                LET out == OutIndex
                IN  \A r \in DictKeys(idx) :
                        (should_encode(r) /\ NumMatch(r).ok /\ r \notin sel)
                        => ImageCopied(idx, out, r)

C12_Witness ==
    /\ Built
    /\ env.limit = 3
    /\ env.arch.kind = "run"
    /\ \A i \in 1..Len(bld.sublog) : bld.sublog[i].kind = "avif"
    /\ \A i \in 1..3 : AsAvif(Name_a(i)) /\ Count(AvifJob(Name_a(i)), bld.sublog) = 1
    /\ LET idx == InputIndex
           out == OutIndex
       IN  ImageCopied(idx, out, Name_a(4)) /\ ImageCopied(idx, out, Name_a(5))

-----------------------------------------------------------------------------
(* C13 - C14 *)

\* The groups the grouper finds among the images of the build.
FormerGroups == group_by_prefix(DictKeyList(bld.images)).groups

SequencesDir == <<"s", "e", "q", "u", "e", "n", "c", "e", "s", "/">>

\* C13: capability downgrade. When the AVIS capability probe fails: before any
\* job is submitted no group is left and every group member is in the ungrouped
\* list; no AVIS job is ever submitted; once Phase B has submitted its jobs every
\* former group member was submitted exactly once as an AVIF job; and in the
\* completed build no written name is under sequences/ and no manifest value is
\* a sequence object.
C13_Downgrade ==
    (~env.avis_lib /\ bld.pc # "start") =>
        LET members == Range(DictValuesFlat(FormerGroups))
        IN  /\ bld.seq_groups = <<>>
            /\ members \subseteq Range(bld.ungrouped)
            /\ \A i \in 1..Len(bld.sublog) : bld.sublog[i].kind # "avis"
            /\ bld.pc \in {"phaseB", "done"} =>
                \A n \in members : Count(AvifJob(n), bld.sublog) = 1
            /\ Built =>
                /\ \A n \in WrittenNames : ~StartsWith(n, SequencesDir)
                /\ \A i \in 1..Len(bld.manifest) : bld.manifest[i].v.kind # "avis"

C13_Witness ==
    /\ Built
    /\ ~env.avis_lib
    /\ Len(FormerGroups) = 1
    /\ Len(FormerGroups[1].v) = SEQUENCE_THRESHOLD
    /\ \A i \in 1..SEQUENCE_THRESHOLD : AsAvif(FormerGroups[1].v[i])

\* The artifact collected under this name, if any.
Collected(name) ==
    {bld.encoded_results[i][2] :
        i \in {j \in 1..Len(bld.encoded_results) : bld.encoded_results[j][1] = name}}

\* C14: frame index mapping. For every group whose AVIS artifact was collected,
\* with members m_1..m_n in the order of the group: the order is ascending in the
\* trailing integer, the encoder was given the frames in that order (the blob
\* holds the members' images in that order), and the manifest maps m_i to the
\* object {avis: target, frame: i - 1}, so that the frame indices of the group
\* are exactly 0..n-1.
C14_FrameIndex ==
    \A g \in 1..Len(bld.seq_groups) :
        LET prefix == bld.seq_groups[g].k
            names == bld.seq_groups[g].v
        IN  Collected(AvisName(prefix)) # {} =>
                /\ \A i \in 1..(Len(names) - 1) :
                    NumMatch(names[i]).num <= NumMatch(names[i + 1]).num
                /\ Collected(AvisName(prefix))
                    = {AvisBlob([i \in 1..Len(names) |-> Orig(names[i])])}
                /\ \A i \in 1..Len(names) :
                    /\ DictHas(bld.manifest, names[i])
                    /\ DictGet(bld.manifest, names[i])
                        = [kind |-> "avis", target |-> AvisName(prefix), frame |-> i - 1]
                /\ {DictGet(bld.manifest, names[i]).frame : i \in 1..Len(names)}
                    = 0..(Len(names) - 1)

C14_Witness ==
    /\ Built
    /\ Len(bld.seq_groups) = 2
    /\ Len(bld.seq_groups[1].v) = 44
    /\ Collected(AvisName(bld.seq_groups[1].k)) # {}
    /\ Collected(AvisName(bld.seq_groups[2].k)) # {}
    /\ DictGet(bld.manifest, <<"q", "/", "a", "1", "0">> \o Png).frame = 9
    /\ DictGet(bld.manifest, <<"q", "/", "a", "2">> \o Png).frame = 1

-----------------------------------------------------------------------------
(* C15 - C20 *)

ManifestKeys == {bld.manifest[i].k : i \in 1..Len(bld.manifest)}

\* C15: manifest keys are lowercase. In a completed build every key of the
\* manifest is the lowercase form of the name of an image of the input index,
\* also when that name has uppercase characters.
C15_LowercaseKeys ==
    Built =>
        /\ \A k \in ManifestKeys : k = Lower(k)
        /\ \A k \in ManifestKeys : \E n \in ImageNames : k = Lower(n)
        /\ \A n \in ImageNames :
            (DictHas(bld.manifest, n) \/ DictHas(bld.manifest, Lower(n)))
                => DictHas(bld.manifest, Lower(n))

\* The add_file calls of the write phase that store encoded artifacts.
EncodedWrites == SubSeq(wlog, 1, Len(bld.encoded_results))

\* C16: reproducible write order. In a completed build the encoded artifacts
\* are appended to the output in ascending order of their target names,
\* whatever the order in which the jobs completed.
C16_SortedWrites ==
    Built =>
        \A i, j \in 1..Len(EncodedWrites) :
            i < j => ~StrLess(EncodedWrites[j][1], EncodedWrites[i][1])

\* C17: non-image entries are preserved. In a completed build every entry
\* classified as others (no image, skip prefix, or cut by the limit) is in the
\* output index under its own name, and reading it from the output returns the
\* bytes read from the input, prefix included.
C17_OthersPreserved ==
    Built =>
        LET out == OutIndex
        IN  \A i \in 1..Len(bld.others) :
                /\ DictHas(out, bld.others[i].k)
                /\ OutRead(out, bld.others[i].k) = ReadFile(InputFile, bld.others[i].v)

\* C18: manifest entry. In a completed build the last add_file call stores the
\* serialized manifest under renpak_manifest.json, no encoded artifact and no
\* copied entry has that name, the output index has one entry more than the
\* distinct names of the artifacts and copied entries, and reading
\* renpak_manifest.json returns the serialized manifest.
C18_ManifestEntry ==
    Built =>
        LET out == OutIndex
            before == SubSeq(wlog, 1, Len(wlog) - 1)
        IN  /\ wlog # <<>>
            /\ wlog[Len(wlog)] = <<ManifestName, JsonDumps(bld.manifest)>>
            /\ \A i \in 1..Len(before) : before[i][1] # ManifestName
            /\ Len(before) = Len(bld.encoded_results) + Len(bld.others)
            /\ Cardinality(DictKeys(out))
                = Cardinality({before[i][1] : i \in 1..Len(before)}) + 1
            /\ DictHas(out, ManifestName)
            /\ OutRead(out, ManifestName) = JsonDumps(bld.manifest)

\* C19: worker errors are values. No failure inside a worker job, a failed read
\* of the entry's bytes included, leaves the build through an exception raised
\* again by the scheduler.
C19_ErrorsAreValues ==
    ~(bld.pc = "aborted" /\ bld.exc = "worker exception")

\* C20: worker crash isolation. The death of a worker process in the encoder
\* never ends the build: the scheduler is not left through BrokenProcessPool.
C20_CrashIsolation ==
    \A n \in env.crash : ~(bld.raised = n /\ bld.exc = "BrokenProcessPool")

-----------------------------------------------------------------------------
(* C21 - C25: the container *)

\* The total length of the data passed to add_file.
TotalWritten == Len(FlattenSeqs([i \in 1..Len(wlog) |-> wlog[i][2]]))

SerializedIndex(wr) == ZlibCompress(PickleDumps(ObfuscatedIndex(wr)))

\* C21: archive body layout. In every finished archive the index offset of the
\* header is 40 plus the total length of the data passed to add_file, which is
\* the file length minus the length of the serialized index, and every entry
\* of the index read back has offset >= 40 and offset + length <= index_offset.
C21_BodyLayout ==
    w.finished =>
        LET h == ParseHeader(w.file)
            idx == ReadIndex(w.file, h.index_offset, h.key)
        IN  /\ h.state = "open"
            /\ h.index_offset = 40 + TotalWritten
            /\ h.index_offset = Len(w.file) - Len(SerializedIndex(w))
            /\ \A i \in 1..Len(idx) :
                /\ idx[i].v.offset >= 40
                /\ idx[i].v.offset + idx[i].v.length <= h.index_offset

C21_Witness ==
    /\ w.finished
    /\ Len(wlog) = 3
    /\ TotalWritten = 5
    /\ ParseHeader(w.file).index_offset = 45
    /\ Len(w.entries) = 3

IsHexDigit(b) == HexVal(b) >= 0

\* C22: header and key. For every key given to the writer, the first 40 bytes
\* of the finished file start with 'RPA-3.0 ', byte 24 is a space and bytes
\* 25-32 are 8 hex digits that parse to the key; the reader extracts that key,
\* and decoding the serialized index with it gives the offset and the length
\* the writer recorded for every entry.
C22_HeaderKey ==
    w.finished =>
        LET h == ParseHeader(w.file)
            idx == ReadIndex(w.file, h.index_offset, h.key)
        IN  /\ Len(w.file) >= 40
            /\ SubSeq(w.file, 1, 8) = Encode(Magic)
            /\ w.file[25] = 32
            /\ \A i \in 26..33 : IsHexDigit(w.file[i])
            /\ ParseHex(SubSeq(w.file, 26, 33)) = [ok |-> TRUE, val |-> w.key]
            /\ h.state = "open"
            /\ h.key = w.key
            /\ Len(idx) = Len(w.entries)
            /\ \A i \in 1..Len(idx) :
                /\ idx[i].k = w.entries[i].k
                /\ idx[i].v.offset = w.entries[i].v[1]
                /\ idx[i].v.length = w.entries[i].v[2]

C22_Witness ==
    /\ w.finished
    /\ w.key = 1
    /\ SubSeq(w.file, 26, 33) = Encode(<<"0", "0", "0", "0", "0", "0", "0", "1">>)
    /\ Len(w.entries) = 2
    /\ w.entries[2].v = <<42, 1>>

\* C23: finish is idempotent. Once the writer is finished, every further step
\* (a finish() or a close(), the one of __exit__ included) leaves the file, the
\* position, the entries and the flags as the first finish left them.
C23_FinishIdempotent ==
    [][w.finished => w' = [w EXCEPT !.calls = w'.calls]]_vars

C23_Witness ==
    /\ w.finished
    /\ w.calls = 2
    /\ Len(wlog) = 2
    /\ TotalWritten = 3

-----------------------------------------------------------------------------
(* The reader specification: a reader opened on a file it did not write *)

\* file with the bytes from position at (counted from 0) on replaced by bytes.
Patched(file, at, bytes) ==
    SubSeq(file, 1, at) \o bytes \o SubSeq(file, at + Len(bytes) + 1, Len(file))

\* A well-formed archive: 'a' holds 01 02, 'b.p' holds 07 after the prefix 4d.
ReadArchive ==
    MakeArchive(<< Item(<<"a">>, <<>>, <<1, 2>>),
                   Item(<<"b", ".", "p">>, <<77>>, <<7>>) >>, 1)

NotAnRpa ==
    Encode(<<"N", "O", "T", "-", "A", "N", "-", "R", "P", "A", "-", "F", "I", "L", "E">>)
    \o [i \in 1..40 |-> 0]

ForeignFiles ==
    { ReadArchive,
      NotAnRpa,
      <<>>,
      Patched(ReadArchive, 0, Encode(<<"r", "p", "a">>)),
      Patched(ReadArchive, 8, Encode(<<"z", "z">>)),
      Patched(ReadArchive, 32, Encode(<<"g">>)),
      Patched(ReadArchive, 8, Encode(<<"0", "x">>)),
      Patched(ReadArchive, 8, Encode(<<" ", " ">>)),
      Patched(ReadArchive, 8, Encode(<<"-">>)),
      Patched(ReadArchive, 25, Encode(<<"+">>)),
      Patched(ReadArchive, 26, Encode(<<"_">>)),
      SubSeq(ReadArchive, 1, 20) }

ReadOffsets == {0, 40, 42, 60}
ReadLengths == {0, 1, 3}
ReadPrefixes == {<<>>, <<77>>}

\* The entries read_file is called with: those of the index that was read and
\* entries built by the caller.
ReadEntries ==
    {rd.index[i].v : i \in 1..Len(rd.index)}
    \cup {RpaEntry(<<"e">>, o, l, p) : o \in ReadOffsets, l \in ReadLengths, p \in ReadPrefixes}

NoRead == [called |-> FALSE, entry |-> RpaEntry(<<>>, 0, 0, <<>>), data |-> <<>>]

InitRead ==
    /\ \E f \in ForeignFiles : w = [NoWriter EXCEPT !.file = f]
    /\ wlog = <<>>
    /\ rd = NoReader @@ [last |-> NoRead]
    /\ gin = <<>>
    /\ gout = [state |-> "unused", groups |-> <<>>, ungrouped |-> <<>>]
    /\ env = [arch |-> "none"]
    /\ bld = [pc |-> "unused"]

\* RpaReader(path)
RdOpen ==
    /\ rd.state = "none"
    /\ rd' = ParseHeader(w.file) @@ [last |-> rd.last]
    /\ UNCHANGED <<w, wlog, grpVars, bldVars>>

\* The bytes from the index offset on are a compressed stream (seek succeeds
\* and zlib.decompress accepts what read() returns).
IndexReadable(file, index_offset) ==
    /\ index_offset >= 0
    /\ index_offset < Len(file)
    /\ file[index_offset + 1] = ZlibMagic

\* reader.read_index(): "index_error" is the exception of seek or decompress.
RdReadIndex ==
    /\ rd.state = "open"
    /\ ~rd.read
    /\ rd' = IF IndexReadable(w.file, rd.index_offset)
             THEN [rd EXCEPT !.index = ReadIndex(w.file, rd.index_offset, rd.key),
                             !.read = TRUE]
             ELSE [rd EXCEPT !.state = "index_error"]
    /\ UNCHANGED <<w, wlog, grpVars, bldVars>>

\* reader.read_file(entry)
RdReadFile ==
    /\ rd.state = "open"
    /\ \E e \in ReadEntries :
        rd' = [rd EXCEPT !.last = [called |-> TRUE, entry |-> e,
                                   data |-> ReadFile(w.file, e)]]
    /\ UNCHANGED <<w, wlog, grpVars, bldVars>>

NextRead == RdOpen \/ RdReadIndex \/ RdReadFile

SpecRead == InitRead /\ [][NextRead]_vars

-----------------------------------------------------------------------------
(* C24 - C25 *)

\* The header the format asks for: the literal, 16 hex digits at bytes 8-23 and
\* 8 hex digits at bytes 25-32.
HeaderParses(file) ==
    /\ StartsWith(file, Encode(Magic))
    /\ Len(file) >= 33
    /\ \A i \in 9..24 : IsHexDigit(file[i])
    /\ \A i \in 26..33 : IsHexDigit(file[i])

\* C24: bad header. Opening a file that does not start with 'RPA-3.0 ', or
\* whose index offset or key field is no hex number, fails with the ValueError
\* that names RPA-3.0, and there is no reader and no index.
C24_BadHeader ==
    (rd.state # "none" /\ ~HeaderParses(w.file)) =>
        /\ rd.state = "not_rpa"
        /\ rd.index = <<>>
        /\ ~rd.read

\* C25: short read. A read_file call that returns has read all of
\* entry.length stored bytes: its result is the prefix and entry.length bytes.
C25_ShortRead ==
    rd.last.called =>
        Len(rd.last.data) = Len(rd.last.entry.prefix) + rd.last.entry.length

-----------------------------------------------------------------------------
(* The call specification: one call of a function of encode.py or build.py   *)
(* on arguments drawn from bounded sets.  env holds the call, bld its        *)
(* position and its result.                                                  *)

ClassDirs ==
    { <<>>, <<"g", "u", "i", "/">>, <<"G", "U", "I", "/">>, <<"G", "u", "i", "/">>,
      <<"x", "/", "g", "u", "i", "/">>, <<"g", "u", "i">> }
ClassStems == { <<"k">>, <<>>, <<"a", ".", "b">> }
ClassExts ==
    { <<".", "p", "n", "g">>, <<".", "P", "N", "G">>, <<".", "j", "p", "g">>,
      <<".", "j", "p", "e", "g">>, <<".", "J", "p", "E", "g">>,
      <<".", "w", "e", "b", "p">>, <<".", "b", "m", "p">>, <<".", "g", "i", "f">>,
      <<".", "r", "p", "y">>, <<>>, <<"p", "n", "g">>, <<".", "p", "n", "g", ".">> }
ClassNames == {d \o st \o e : d \in ClassDirs, st \in ClassStems, e \in ClassExts}

ClassCalls == {[fn |-> "should_encode", name |-> n] : n \in ClassNames}

\* Frames as encode_avis takes them: the pixel data and (width, height).
MaxFrames == 3
CallFrames ==
    { [data |-> <<1, 5>>, size |-> <<8, 8>>],
      [data |-> <<2, 6>>, size |-> <<16, 16>>],
      [data |-> <<3, 7>>, size |-> <<8, 16>>] }
FrameLists == UNION {[1..n -> CallFrames] : n \in 0..MaxFrames}
CallPrefix == <<"p">>

\* lib: the encoder library can be loaded; fail: the encoder returns an error.
AvisCalls ==
    {[fn |-> "encode_avis", frames |-> fs, lib |-> l, fail |-> f] :
        fs \in FrameLists, l \in BOOLEAN, f \in BOOLEAN}

\* MemAvailable values in kB around the thresholds 2 GiB and 2 GiB plus
\* W * 400 MiB, and the two outcomes of a probe without a value.
MaxWorkers == 8
MemValues ==
    {-2, -1, 0, 1, 2097151, 2097152, 2097153, 2506751, 2506752, 2506753, 2916353,
     5373953, 16000000, 64000000, 1000000000}
BudgetCalls ==
    {[fn |-> "get_avis_mem_budget", workers |-> wk, memkb |-> m] :
        wk \in 1..MaxWorkers, m \in MemValues}

Calls == ClassCalls \cup AvisCalls \cup BudgetCalls

\* The environment of the call.
CallEnv(call) ==
    [arch |-> "none", call |-> call,
     avis_lib |-> IF call.fn = "encode_avis" THEN call.lib ELSE TRUE,
     avis_enc_fail |-> IF call.fn = "encode_avis" /\ call.fail THEN {CallPrefix} ELSE {}]

\* What the call returns.
CallResult(call) ==
    IF call.fn = "should_encode" THEN [value |-> should_encode(call.name)]
    ELSE IF call.fn = "get_avis_mem_budget"
    THEN [value |-> get_avis_mem_budget(call.workers, call.memkb)]
    ELSE encode_avis(CallPrefix, call.frames)

InitCalls ==
    /\ \E call \in Calls : env = CallEnv(call)
    /\ bld = [pc |-> "call"]
    /\ InitOther

CallShouldEncode ==
    /\ bld.pc = "call"
    /\ env.call.fn = "should_encode"
    /\ bld' = [pc |-> "returned", result |-> CallResult(env.call)]
    /\ UNCHANGED <<env, rpaVars, grpVars>>

CallEncodeAvis ==
    /\ bld.pc = "call"
    /\ env.call.fn = "encode_avis"
    /\ bld' = [pc |-> "returned", result |-> CallResult(env.call)]
    /\ UNCHANGED <<env, rpaVars, grpVars>>

CallMemBudget ==
    /\ bld.pc = "call"
    /\ env.call.fn = "get_avis_mem_budget"
    /\ bld' = [pc |-> "returned", result |-> CallResult(env.call)]
    /\ UNCHANGED <<env, rpaVars, grpVars>>

NextCalls == CallShouldEncode \/ CallEncodeAvis \/ CallMemBudget

SpecCalls == InitCalls /\ [][NextCalls]_vars

-----------------------------------------------------------------------------
(* C26 *)

\* name ends, letter case aside, with ext, and ext is more than the whole of
\* its last path component.
HasExtension(name, ext) ==
    /\ Len(name) > Len(ext)
    /\ Lower(SubSeq(name, Len(name) - Len(ext) + 1, Len(name))) = ext
    /\ name[Len(name) - Len(ext)] # "/"

Returned(fn) == bld.pc = "returned" /\ env.call.fn = fn

\* C26: classifier. should_encode(name) is true exactly when the name ends,
\* letter case aside, with one of .jpg .jpeg .png .webp .bmp and does not start
\* with 'gui/' in exactly that casing: 'GUI/x.png' is to be encoded, 'gui/x.PNG'
\* is not.
C26_Classifier ==
    Returned("should_encode") =>
        LET name == env.call.name
        IN  bld.result.value
            <=> /\ \E ext \in { <<".", "j", "p", "g">>, <<".", "j", "p", "e", "g">>,
                                <<".", "p", "n", "g">>, <<".", "w", "e", "b", "p">>,
                                <<".", "b", "m", "p">> } : HasExtension(name, ext)
                /\ ~(Len(name) >= 4 /\ SubSeq(name, 1, 4) = <<"g", "u", "i", "/">>)

C26_Witness ==
    /\ Returned("should_encode")
    /\ env.call.name = <<"G", "U", "I", "/", "k", ".", "p", "n", "g">>
    /\ bld.result.value

-----------------------------------------------------------------------------
(* C27 *)

Contains(str, sub) ==
    \E i \in 1..(Len(str) - Len(sub) + 1) : SubSeq(str, i, i + Len(sub) - 1) = sub

\* C27: encode_avis validation. An empty frame list fails with a ValueError; a
\* list in which some frame's (width, height) differs from the first frame's
\* fails with a ValueError whose message contains 'size'; in both cases the
\* encoder library was neither loaded nor called.
C27_Validation ==
    Returned("encode_avis") =>
        LET frames == env.call.frames
            res == bld.result
        IN  /\ frames = <<>> =>
                /\ ~res.ok
                /\ res.exc = "ValueError"
                /\ res.lib = "untouched"
            /\ (\E i \in 1..Len(frames) : frames[i].size # frames[1].size) =>
                /\ ~res.ok
                /\ res.exc = "ValueError"
                /\ Contains(res.err, <<"s", "i", "z", "e">>)
                /\ res.lib = "untouched"

C27_Witness ==
    /\ Returned("encode_avis")
    /\ Len(env.call.frames) = 3
    /\ env.call.frames[1].size = <<8, 8>>
    /\ env.call.frames[2].size = <<8, 8>>
    /\ env.call.frames[3].size = <<8, 16>>
    /\ ~env.avis_lib
    /\ bld.result.exc = "ValueError"
    /\ bld.result.err
        = <<"F", "r", "a", "m", "e", " ", "2", " ", "h", "a", "s", " ", "s", "i", "z", "e", " ",
            "8", "x", "1", "6", ",", " ", "e", "x", "p", "e", "c", "t", "e", "d", " ",
            "8", "x", "8">>

-----------------------------------------------------------------------------
(* C29 *)

\* C29: memory budget value. Counted in units of 512 bytes (half a kB of
\* MemAvailable is one unit, 200 MiB are 409600 units, 1 GiB is 2097152 units):
\* the budget is the larger of memkb - W * 409600 and 2097152 when the probe
\* gives a value, and 4 GiB = 8388608 units when it fails or finds no value;
\* it is never below 1 GiB.
C29_BudgetValue ==
    Returned("get_avis_mem_budget") =>
        LET W == env.call.workers
            memkb == env.call.memkb
            budget == bld.result.value
        IN  /\ memkb < 0 => budget = 8388608
            /\ (memkb >= 0 /\ memkb - W * 409600 >= 2097152) => budget = memkb - W * 409600
            /\ (memkb >= 0 /\ memkb - W * 409600 < 2097152) => budget = 2097152
            /\ budget >= 2097152

C29_Witness ==
    /\ Returned("get_avis_mem_budget")
    /\ env.call.workers = 2
    /\ env.call.memkb = 2916353
    /\ bld.result.value = 2097153

-----------------------------------------------------------------------------
(* C30 *)

\* An AVIS job was submitted for the group.
GroupSubmitted(g) == \E i \in 1..Len(bld.sublog) : bld.sublog[i] = AvisJob(g.k)

\* The result of the group's job was collected: its frames are in the manifest
\* or its names are in the fallback list.
GroupCollected(g) ==
    DictHas(bld.manifest, g.v[1]) \/ \E i \in 1..Len(bld.fallback) : bld.fallback[i] = g.v[1]

\* The frames of the groups that are submitted and not yet collected.
InFlightFrames ==
    Len(DictValuesFlat(SelectSeq(bld.seq_groups,
            LAMBDA g : GroupSubmitted(g) /\ ~GroupCollected(g))))

\* C30: in-flight accounting. In units of 512 bytes one frame is estimated at
\* 1920 * 1080 * 4 * 3 / 512 = 48600. At every point of Phase A mem_in_flight
\* is 48600 times the number of frames of the groups submitted and not yet
\* collected, which are the groups in flight; it is never negative, and it is 0
\* once Phase A has ended.
C30_InFlight ==
    /\ bld.pc \in {"submit", "wait"} =>
        /\ bld.mem = 48600 * InFlightFrames
        /\ {bld.avis_futures[i].prefix : i \in 1..Len(bld.avis_futures)}
            = {g.k : g \in {h \in Range(bld.seq_groups) :
                                GroupSubmitted(h) /\ ~GroupCollected(h)}}
    /\ bld.mem >= 0
    /\ bld.pc \in {"phaseB_submit", "phaseB", "done"} => bld.mem = 0

C30_Witness ==
    /\ bld.pc = "wait"
    /\ Len(bld.avis_futures) = 2
    /\ \E g \in Range(bld.seq_groups) : GroupCollected(g)
    /\ InFlightFrames = 26
    /\ bld.mem = 1263600

-----------------------------------------------------------------------------
(* C28: a stop request.  _build_rpa has no stop flag, no signal handler and  *)
(* no except clause: the stop request a running build can get is the         *)
(* interrupt signal, which raises KeyboardInterrupt in the scheduler.         *)

\* Lines 236-317: KeyboardInterrupt is raised in the scheduler while the pool
\* is open. Leaving the with block of the pool waits for the submitted jobs
\* (shutdown(wait=True)); their results are dropped, and the exception leaves
\* _build_rpa and build before the output is opened: the local variables of
\* _build_rpa are gone.
Interrupt ==
    /\ bld.pc \in {"encode", "submit", "wait", "phaseB_submit", "phaseB"}
    /\ bld' = [BuildStart EXCEPT !.pc = "aborted", !.exc = "KeyboardInterrupt"]
    /\ UNCHANGED <<env, rpaVars, grpVars>>

NextStop == Next \/ Interrupt

SpecStop == Init /\ [][NextStop]_vars

\* C28: cancellation. After a stop request the scheduler submits no further
\* job, the jobs in flight have been waited for, no output is left, and the
\* build returns with the status Cancelled (it is not left by an exception).
C28_Cancellation ==
    bld.exc = "KeyboardInterrupt" =>
        /\ bld.avis_futures = <<>>
        /\ bld.avif_futures = <<>>
        /\ w = NoWriter
        /\ bld.pc = "cancelled"

-----------------------------------------------------------------------------
(* C31: progress of Phase 1.  The scheduler thread keeps running and every   *)
(* submitted job completes: a step of Phase 1 that stays possible is taken.  *)

\* Builds under a budget of 1 GiB: a run of 44 frames, whose estimate alone
\* exceeds the budget, ahead of a run of 5; runs of 22 and 21 frames that fill
\* the budget ahead of a run of 5; and runs of 22, 5 and 22 frames, stored in
\* that order. The run of 5 may fail to encode.
ProgressSizes == {{1, 4}, {2, 3, 4}, {2, 4, 5}}

ProgressEnvs ==
    [arch : {[kind |-> "big", sizes |-> z] : z \in ProgressSizes},
     limit : {0},
     avis_lib : {TRUE},
     mem_kb : {1000000},
     workers : {2},
     avis_enc_fail : SUBSET {<<"q", "/", "d">>},
     avif_fail : {{}},
     read_fail : {{}},
     crash : {{}},
     key : {InputKey}]

InitProgress ==
    /\ \E e \in ProgressEnvs : env = WithFile(e)
    /\ bld = BuildStart
    /\ InitOther

\* The scheduler thread runs: a turn of the loop of _submit_avis_groups that
\* stays possible is taken.
SchedulerRuns == WF_vars(AvisSubmit \/ AvisSubmitEnd)

\* Every submitted job eventually completes: while the scheduler waits in
\* as_completed, a result arrives and is collected. This is WF_vars(AvisCollect)
\* with the enabling condition of AvisCollect written out: the scheduler waits
\* (and then a task is in flight).
JobsComplete == []<>(bld.pc # "wait") \/ []<><<AvisCollect>>_vars

SpecProgress == InitProgress /\ [][Next]_vars /\ SchedulerRuns /\ JobsComplete

QueuePrefixes ==
    {<<"q", "/", "a">>, <<"q", "/", "b">>, <<"q", "/", "c">>, <<"q", "/", "d">>, <<"q", "/", "e">>}

\* The group of the prefix waits in group_queue.
Queued(p) == \E i \in 1..Len(bld.queue) : bld.queue[i].k = p

\* The result of the job of the prefix's group was collected.
PrefixCollected(p) == \E g \in Range(bld.seq_groups) : g.k = p /\ GroupCollected(g)

\* C31: Phase A progress. Every group in the submission queue is eventually
\* submitted and its result collected, also when its estimate alone exceeds the
\* budget; after an admission check (the loop of _submit_avis_groups has ended)
\* a non-empty queue has a task in flight; and once Phase A is over the queue is
\* empty and nothing is in flight.
C31_Progress ==
    /\ [](bld.pc = "wait" => bld.avis_futures # <<>>)
    /\ [](bld.pc \in {"wait", "phaseB_submit", "phaseB", "done"} /\ bld.queue # <<>>
            => bld.avis_futures # <<>>)
    /\ [](bld.pc \in {"phaseB_submit", "phaseB", "done"}
            => bld.queue = <<>> /\ bld.avis_futures = <<>>)
    /\ \A p \in QueuePrefixes :
        Queued(p) ~> (GroupSubmitted([k |-> p]) /\ PrefixCollected(p))

\* A group whose estimate alone exceeds the budget was collected, and so was a
\* group that waited behind it.
C31_Witness ==
    /\ bld.pc = "done"
    /\ Len(bld.seq_groups) >= 2
    /\ \E g \in Range(bld.seq_groups) : GroupMem(g.v) > bld.budget /\ GroupCollected(g)
    /\ \A g \in Range(bld.seq_groups) : GroupCollected(g)

-----------------------------------------------------------------------------
(* C32 *)

SpecQueue == InitProgress /\ [][Next]_vars

\* The prefixes of the AVIS jobs submitted so far, in the order of submission.
AvisSubmitted ==
    LET jobs == SelectSeq(bld.sublog, LAMBDA j : j.kind = "avis")
    IN  [i \in 1..Len(jobs) |-> jobs[i].key]

\* The number of frames of the group of the prefix.
Frames(p) == Len(DictGet(bld.seq_groups, p))

\* The place of the prefix's group among the groups as grouping returned them.
GroupIndex(p) == CHOOSE i \in 1..Len(bld.seq_groups) : bld.seq_groups[i].k = p

\* The group of p is ahead of the group of q: it has more frames, or as many
\* and came first.
Ahead(p, q) ==
    \/ Frames(p) > Frames(q)
    \/ Frames(p) = Frames(q) /\ GroupIndex(p) < GroupIndex(q)

\* C32: FIFO submission order. The AVIS jobs are submitted in non-increasing
\* order of frame count; no group is submitted while a group ahead of it still
\* waits (every submitted group is ahead of every queued group, and the queue
\* itself is in that order); and a step that submits an AVIS job submits the
\* head of the queue and nothing else, whether or not a later group would fit.
C32_Fifo ==
    /\ [](LET sub == AvisSubmitted
          IN  /\ \A i, j \in 1..Len(sub) : i < j => Ahead(sub[i], sub[j])
              /\ \A i \in 1..Len(sub) : \A j \in 1..Len(bld.queue) :
                    Ahead(sub[i], bld.queue[j].k)
              /\ \A i, j \in 1..Len(bld.queue) :
                    i < j => Ahead(bld.queue[i].k, bld.queue[j].k))
    /\ [][Len(bld'.sublog) > Len(bld.sublog) /\ bld.pc = "submit"
            => /\ bld.queue # <<>>
               /\ bld'.sublog = Append(bld.sublog, AvisJob(Head(bld.queue).k))
               /\ bld'.queue = Tail(bld.queue)]_vars

\* The head of the queue (22 frames) waits behind a group in flight while the
\* group after it (5 frames) would fit the budget; the groups were stored in
\* another order than they are submitted in.
C32_Witness ==
    /\ bld.pc = "wait"
    /\ Len(bld.avis_futures) = 1
    /\ Len(bld.queue) = 2
    /\ Blocked(bld, GroupMem(bld.queue[1].v))
    /\ ~Blocked(bld, GroupMem(bld.queue[2].v))
    /\ GroupIndex(bld.queue[2].k) < GroupIndex(bld.queue[1].k)

-----------------------------------------------------------------------------
(* C33 *)

\* The outcome of the AVIS job of a group and of the AVIF job of a name: they
\* are fixed by the input and the environment.
GroupOutcome(g) == worker_encode_avis(g.k, EntriesInfo(g.v))
NameOutcome(n) == worker_encode_avif(n, DictGet(bld.images, n))

\* The manifest as a mapping: its set of <<name, value>> pairs.
AsMapping(d) == {<<d[i].k, d[i].v>> : i \in 1..Len(d)}

\* The manifest entries of a group's outcome: one per frame when the job
\* succeeded.
FrameEntries(r) ==
    IF r.tag # "avis" THEN {}
    ELSE {<<r.names[i], [kind |-> "avis", target |-> r.target, frame |-> i - 1]>> :
            i \in 1..Len(r.names)}

\* The names a group's outcome hands to AVIF jobs: all of them when the job
\* failed.
FallbackOf(r) == IF r.tag = "avis_fail" THEN Range(r.names) ELSE {}

\* The manifest entry of a name's AVIF outcome.
NameEntries(r) ==
    IF r.tag # "avif" THEN {}
    ELSE {<<r.key, [kind |-> "avif", target |-> r.target, frame |-> 0]>>}

\* The mapping the job outcomes determine: the frames of the groups whose job
\* succeeded, and the names of the AVIF jobs that succeeded (the ungrouped names
\* and the members of the groups whose job failed).
OutcomeMapping ==
    LET outcomes == {GroupOutcome(g) : g \in Range(bld.seq_groups)}
        jobs == {n \in Range(bld.ungrouped) \cup UNION {FallbackOf(r) : r \in outcomes} :
                    DictHas(bld.images, n)}
    IN  UNION {FrameEntries(r) : r \in outcomes}
        \cup UNION {NameEntries(NameOutcome(n)) : n \in jobs}

\* C33: manifest determinism. In a completed build the manifest, as a mapping
\* from name to value, is the mapping the input and the job outcomes determine,
\* with one value per name, whatever the order in which the jobs completed.
C33_Deterministic ==
    bld.pc = "done" =>
        /\ AsMapping(bld.manifest) = OutcomeMapping
        /\ Cardinality(AsMapping(bld.manifest)) = Len(bld.manifest)

\* A completed build whose jobs completed in another order than they were
\* submitted in: the manifest starts with a frame of the group submitted second,
\* and the AVIF job submitted last was collected before the one submitted first.
C33_Witness ==
    /\ bld.pc = "done"
    /\ Len(AvisSubmitted) >= 2
    /\ bld.manifest # <<>>
    /\ bld.manifest[1].k \in Range(DictGet(bld.seq_groups, AvisSubmitted[2]))
    /\ \E i, j \in 1..Len(bld.manifest) :
        /\ i < j
        /\ bld.manifest[i].v.kind = "avif"
        /\ bld.manifest[j].v.kind = "avif"
        /\ \E a, b \in 1..Len(bld.sublog) :
            a < b /\ bld.sublog[a].key = bld.manifest[j].k /\ bld.sublog[b].key = bld.manifest[i].k

-----------------------------------------------------------------------------
(* C34 *)

\* The AVIF jobs submitted so far.
AvifSubmitted == SelectSeq(bld.sublog, LAMBDA j : j.kind = "avif")

\* C34: phase ordering. A step that submits an AVIF job finds no AVIS group
\* queued or in flight; once Phase 2 has submitted its jobs, every name of the
\* ungrouped list and of the fallback list was submitted exactly once as an AVIF
\* job and no other name was; and when the output exists, no job is in flight
\* and the result of every submitted job has been collected.
C34_PhaseOrder ==
    /\ [][Len(SelectSeq(bld'.sublog, LAMBDA j : j.kind = "avif")) > Len(AvifSubmitted)
            => bld.queue = <<>> /\ bld.avis_futures = <<>> /\ w = NoWriter]_vars
    /\ [](bld.pc \in {"phaseB", "done"} =>
            /\ \A n \in Range(bld.ungrouped) \cup Range(bld.fallback) :
                    Count(AvifJob(n), bld.sublog) = 1
            /\ Range(AvifSubmitted)
                    = {AvifJob(n) : n \in Range(bld.ungrouped) \cup Range(bld.fallback)})
    /\ [](w # NoWriter =>
            /\ bld.queue = <<>>
            /\ bld.avis_futures = <<>>
            /\ bld.avif_futures = <<>>
            /\ bld.done_count = Len(bld.sublog))

\* The output of a build that ran an AVIS job, fell back to AVIF jobs for its
\* group and had ungrouped names as well.
C34_Witness ==
    /\ w # NoWriter
    /\ bld.pc = "done"
    /\ bld.fallback # <<>>
    /\ bld.ungrouped # <<>>
    /\ \E j \in Range(bld.sublog) : j.kind = "avis"
    /\ Len(AvifSubmitted) = Len(bld.fallback) + Len(bld.ungrouped)

-----------------------------------------------------------------------------
(* C35 *)

\* C35: progress counter bound. The total number of tasks does not change once
\* grouping and the capability check are done, and every progress report shows
\* a count of finished tasks that is at most the total.
C35_DoneWithinTotal ==
    /\ [](bld.progress # <<>> =>
            bld.progress[2] = bld.total_tasks /\ bld.progress[1] <= bld.progress[2])
    /\ [][bld.pc \notin {"start"} /\ bld'.pc # "aborted"
            => bld'.total_tasks = bld.total_tasks]_vars

-----------------------------------------------------------------------------
(* C36 *)

\* C36: unique output names. The names the writer receives in one build are
\* pairwise distinct: no add_file call of the write phase names a file that an
\* earlier call of the same build named.
C36_UniqueNames ==
    bld.pc = "done" =>
        \A i, j \in 1..Len(wlog) : i # j => wlog[i][1] # wlog[j][1]

-----------------------------------------------------------------------------
(* C37 *)

\* C37: duplicate names are rejected at write time. An add_file call with a
\* name that was already added to the writer leaves the recorded entries and
\* the file's content as they were.
C37_RejectDuplicates ==
    [][(/\ Len(wlog') = Len(wlog) + 1
        /\ DictHas(w.entries, wlog'[Len(wlog')][1]))
       => (w'.entries = w.entries /\ w'.file = w.file)]_vars

-----------------------------------------------------------------------------
(* C38: an exception in the write phase.  Inside the with block of the       *)
(* writer an exception can be raised between two add_file calls: an OSError  *)
(* of reader.read_file or of the file system, or KeyboardInterrupt.          *)

\* Lines 326-339: the add_file calls of the write phase, in order.
WriteAdds ==
    bld.encoded_results \o OthersCopied(bld)
    \o << <<ManifestName, JsonDumps(bld.manifest)>> >>

\* Lines 324-340, rpa.py 108-109: an exception is raised after k add_file
\* calls; leaving the with block calls __exit__, which calls close(), which
\* calls finish(); then the exception leaves _build_rpa.
WriteError ==
    /\ bld.pc = "phaseB"
    /\ bld.avif_futures = <<>>
    /\ \E k \in 0..(Len(WriteAdds) - 1) :
        /\ w' = Close(AddAll(WriterInit(env.key), SubSeq(WriteAdds, 1, k)))
        /\ wlog' = SubSeq(WriteAdds, 1, k)
    /\ bld' = [bld EXCEPT !.pc = "aborted", !.exc = "write error"]
    /\ UNCHANGED <<env, rd, grpVars>>

NextWrite == Next \/ WriteError

\* The builds without a fault in the encoding phases, with and without a limit.
WriteEnvs == {e \in Envs : Faults(e) = (IF e.limit > 0 THEN 1 ELSE 0)}

InitWrite ==
    /\ \E e \in WriteEnvs : env = WithFile(e)
    /\ bld = BuildStart
    /\ InitOther

SpecWrite == InitWrite /\ [][NextWrite]_vars

\* C38: writer close on error. Once the writer's context is left the output
\* file is closed; and when it was left by an exception, the output is removed
\* or a reader does not accept it as an archive.
C38_CloseOnError ==
    /\ (w # NoWriter /\ bld.pc \in {"done", "aborted"}) => w.closed
    /\ bld.exc = "write error" =>
        \/ w = NoWriter
        \/ w.file = <<>>
        \/ ParseHeader(w.file).state # "open"

-----------------------------------------------------------------------------
(* The runtime loader: runtime/renpak_loader.py.  env holds what the game's   *)
(* directory offers: the manifest of the archive (if it has one), whether     *)
(* librenpak_rt.so loads and whether the decoder fails; the archive holds     *)
(* every blob the manifest names.  bld holds the module's globals (_manifest, *)
(* _rt_lib, _avis_cache), whether the hooks are installed, and the last       *)
(* answer of each callback.                                                   *)

\* The manifest a build of the five-frame run and two scatter images writes.
RunManifest ==
    DictSet(
        DictSet(ManifestFrames(<<>>, [i \in 1..SEQUENCE_THRESHOLD |-> Name_a(i)],
                               AvisName(Stem_a)),
                Name_b_png, [kind |-> "avif", target |-> get_avif_name(Name_b_png), frame |-> 0]),
        Name_C_PNG, [kind |-> "avif", target |-> get_avif_name(Name_C_PNG), frame |-> 0])

\* The manifest of a build without sequences.
ScatterManifest ==
    DictSet(<<>>, Name_b_png,
            [kind |-> "avif", target |-> get_avif_name(Name_b_png), frame |-> 0])

LoaderEnvs ==
    [arch : {"none"},
     manifest : {[present |-> FALSE, entries |-> <<>>]}
                \cup {[present |-> TRUE, entries |-> m] :
                        m \in {<<>>, RunManifest, ScatterManifest}},
     rt_lib : BOOLEAN,
     decode_fail : BOOLEAN]

\* The names the game asks for.
LoaderNames ==
    {Name_a(1), Name_a(3), Name_b_png, Name_C_PNG, Lower(Name_C_PNG), Name_rpy}

NoAnswer == [name |-> <<>>, value |-> "unasked"]

LoaderStart ==
    [pc |-> "boot", manifest |-> <<>>, rt_lib |-> FALSE, avis_cache |-> {},
     loadable |-> NoAnswer, opened |-> NoAnswer]

\* Lines 63-84: _init_rt_lib leaves _rt_lib None when the library does not load.
init_rt_lib(st) == [st EXCEPT !.rt_lib = env.rt_lib]

\* Line 36: {k.lower(): v for k, v in raw.items()}
LowerKeys(raw) == DictFromItems([i \in 1..Len(raw) |-> [k |-> Lower(raw[i].k), v |-> raw[i].v]])

\* Lines 22-60: install. Without a manifest, or with an empty one, no hook is
\* installed; the hooks are installed whether or not the decoder was loaded.
install(st) ==
    IF ~env.manifest.present THEN [st EXCEPT !.pc = "disabled"]
    ELSE LET m == LowerKeys(env.manifest.entries)
             st1 == [st EXCEPT !.manifest = m]
         IN  IF m = <<>> THEN [st1 EXCEPT !.pc = "disabled"]
             ELSE IF \E i \in 1..Len(m) : m[i].v.kind = "avis"
             THEN [init_rt_lib(st1) EXCEPT !.pc = "installed"]
             ELSE [st1 EXCEPT !.pc = "installed"]

\* Lines 160-163: _loadable_callback.
loadable_callback(st, name) == DictHas(st.manifest, Lower(name))

\* Lines 128-157: _file_open_callback. The answer is "none" (None is
\* returned), "avif" (the archive's file object, tagged) or "png" (a BytesIO
\* of the decoded frame); cache is _avis_cache after the call.
file_open_callback(st, name) ==
    LET key == Lower(name)
        none == [kind |-> "none", cache |-> st.avis_cache]
    IN  IF ~DictHas(st.manifest, key) THEN none
        ELSE LET entry == DictGet(st.manifest, key)
             IN  IF entry.kind = "avif"
                 THEN [kind |-> "avif", cache |-> st.avis_cache]
                 ELSE IF ~st.rt_lib THEN none
                 ELSE IF env.decode_fail
                 THEN [kind |-> "none", cache |-> st.avis_cache \cup {entry.target}]
                 ELSE [kind |-> "png", cache |-> st.avis_cache \cup {entry.target}]

InitLoader ==
    /\ \E e \in LoaderEnvs : env = e
    /\ bld = LoaderStart
    /\ InitOther

LdInstall ==
    /\ bld.pc = "boot"
    /\ bld' = install(bld)
    /\ UNCHANGED <<env, rpaVars, grpVars>>

\* The host asks whether a name is loadable.
LdLoadable ==
    /\ bld.pc = "installed"
    /\ \E name \in LoaderNames :
        bld' = [bld EXCEPT !.loadable = [name |-> name,
                                 value |-> IF loadable_callback(bld, name) THEN "yes" ELSE "no"]]
    /\ UNCHANGED <<env, rpaVars, grpVars>>

\* The host opens a name.
LdFileOpen ==
    /\ bld.pc = "installed"
    /\ \E name \in LoaderNames :
        LET r == file_open_callback(bld, name)
        IN  bld' = [bld EXCEPT !.opened = [name |-> name, value |-> r.kind],
                               !.avis_cache = r.cache]
    /\ UNCHANGED <<env, rpaVars, grpVars>>

NextLoader == LdInstall \/ LdLoadable \/ LdFileOpen

SpecLoader == InitLoader /\ [][NextLoader]_vars

-----------------------------------------------------------------------------
(* C39 *)

\* C39: runtime loader consistency. With the hooks installed, a name that
\* _loadable_callback reports as loadable is opened by _file_open_callback: the
\* answer is a file object, also for sequence entries when the decoder library
\* did not load or a decode fails.
C39_LoaderConsistent ==
    /\ bld.pc = "installed" =>
        \A name \in LoaderNames :
            loadable_callback(bld, name) => file_open_callback(bld, name).kind # "none"
    /\ (bld.loadable.value = "yes" /\ bld.opened.name = bld.loadable.name)
            => bld.opened.value # "none"


====
